---- MODULE Spec2Model ----
(***************************************************************************)
(* Resolution pipeline of Dhater/Sistemas2: the Redis-backed CacheManager  *)
(* (src/Cache/app.py), the batch client LLMClient with its cache -> store  *)
(* -> Gemini fallback (src/LLM_Client/app.py), the thread-pool client of   *)
(* src/prueba/adsad.py and call_grok of src/prueba/app.py.                 *)
(*                                                                         *)
(* Each program is its own specification over its own variables; the       *)
(* variables of the other programs stay at their initial value.            *)
(***************************************************************************)
EXTENDS Integers, Sequences, FiniteSets, TLC

VARIABLES
    \* ---- CacheManager (src/Cache/app.py) ----
    cache_size,     \* self.cache_size
    cache_policy,   \* self.cache_policy
    cm_redis,       \* Redis db 0: key -> stored text, or None when absent
    cm_touch,       \* Redis per-key last-access tick (OBJECT IDLETIME = cm_clock - cm_touch)
    cm_clock,       \* Redis LRU clock, in ticks of its resolution
    cm_last,        \* the last CacheManager call, what it returned and what it evicted
    \* history of the cache (not program state)
    cm_order,       \* the resident keys in the order of their creation, oldest first
    cm_access,      \* the resident keys in the order of their last get or set, oldest first
    \* ---- LLMClient (src/LLM_Client/app.py) ----
    api_keys,       \* self.api_keys
    key_index,      \* self._key_index
    redis_client,   \* Redis as LLMClient uses it: cache key -> answer, or None
    questions_table,\* table questions: a sequence of rows, the id is the index
    processed_count,\* run_batches: processed_count
    questions,      \* run_batches: what is left of the batch in "for q in questions"
    pc,             \* run_batches: where the control is
    q,              \* run_batches: the question being resolved
    answer,         \* run_batches: answer
    source,         \* run_batches: source
    result,         \* run_batches: result, the dict built when a resolution completes
    tried,          \* get_answer_from_gemini: tried
    keys_to_try,    \* get_answer_from_gemini: keys_to_try
    \* history of the resolution in progress (not program state)
    consulted,      \* the tiers consulted so far, in order
    exhausted,      \* get_answer_from_gemini gave up on every credential
    cache_written,  \* cache_answer's SETEX went through
    client_resolved,\* questions resolved by a successful Gemini response, stored and cached
    cache_failed,   \* get_cached_answer raised in this resolution
    used_keys,      \* the credentials this get_answer_from_gemini has sent a request with
    rotated,        \* _key_index after each of the last len(api_keys) _rotate_key calls
    writes,         \* the write calls of the resolution in progress, in order
    \* ---- call_grok (src/prueba/app.py) ----
    API_KEYS,       \* API_KEYS
    cycle_pos,      \* api_keys_cycle: the index next() returns next
    tried_keys,     \* call_grok: tried_keys
    grok_key,       \* call_grok: key
    grok_pc,        \* call_grok: where the control is
    grok_attempts,  \* history: requests.post calls of this call_grok
    \* ---- LLMClient of src/prueba/adsad.py ----
    ad_api_keys,    \* self.api_keys
    ad_key_index,   \* self.key_index, shared by the pool's threads
    ad_redis,       \* Redis as adsad uses it: question -> answer, or None
    ad_table,       \* table questions
    ad_main,        \* _update_missing_llm_answers: where the main thread is
    ad_queue,       \* the executor's work queue: questions submitted, not started
    ad_exception,   \* a future of this batch holds an exception
    ad_pc,          \* per pool thread: where it is in _process_question
    ad_question,    \* per pool thread: question
    ad_answer,      \* per pool thread: llm_answer
    ad_depth,       \* per pool thread: nested _call_llm frames (= failed attempts)
    ad_read,        \* per pool thread: the key_index _rotate_key has read
    ad_ret,         \* per pool thread: what its last _rotate_key returned (0: none yet)
    ad_source,      \* history, per pool thread: what served the question
    ad_saved,       \* history, per pool thread: _save_to_db committed
    ad_resp,        \* history, per pool thread: the response its except clause handles
    ad_expected,    \* history: the key_index start + (completed _rotate_key calls) mod N
    ad_writes,      \* history, per pool thread: the writes its _process_question issued
    \* ---- history of the cache for the LFU policy (not program state) ----
    cm_count,       \* per resident key: its gets and sets since it was created
    \* ---- start-up: LLMClient.__init__ of LLM_Client/app.py and of adsad.py ----
    st_prog,        \* which of the two programs starts
    st_env,         \* the credentials as the environment gives them
    st_keys,        \* self.api_keys
    st_pc,          \* where the control is in __init__ and main
    st_attempt,     \* connection attempts made so far
    st_conn,        \* a database connection was obtained
    st_touched,     \* history: the clients __init__ has created or connected
    \* ---- ingresar.upsert_questions ----
    up_table,       \* table questions: id -> row
    up_before,      \* history: the table before the call
    up_data,        \* history: the argument of the call (<<>>: not called yet)
    up_error,       \* the call raised
    \* ---- TrafficGenerator.simulate_traffic ----
    tg_redis,       \* Redis: qid -> what is cached for "question:<qid>", or NoVal
    tg_rows,        \* table questions: qid -> a row with that id exists
    tg_i,           \* i, the queries done
    tg_hits,        \* self.hits
    tg_misses,      \* self.misses
    tg_data,        \* history: what served data ("none": data is None)
    tg_writes,      \* history: the write calls of the query in progress, in order
    \* ---- the stream of Reprocessor_Flink.py ----
    fl_failed,      \* topic respuestas_fallidas: the messages not consumed yet
    fl_questions,   \* topic preguntas: the messages the sink wrote, not consumed yet
    fl_last,        \* history: the last message reprocess_fails took and what it returned
    fl_emits,       \* history, per question id: the messages the sink wrote for it
    \* ---- history of the cache for the values (not program state) ----
    cm_value,       \* per resident key: the value of the last set that returned True
    \* ---- get_answer_from_gemini called on its own ----
    start_index,    \* get_answer_from_gemini: start_index
    \* history of the call in progress (not program state)
    last_key,       \* _key_index at the last requests.post of the call (-1: none yet)
    last_status,    \* the status of the last response of the call (-1: none yet)
    slept,          \* a time.sleep has run since the last requests.post of the call
                    \* (of get_answer_from_gemini or of call_grok)
    \* ---- evaluate_question (src/prueba/app.py) ----
    ev_table,       \* table questions: id -> row
    ev_conn,        \* conn of the last request: "none", "open" or "closed"
    ev_status,      \* the HTTP status the last request ended with (0: no request yet)
    ev_req,         \* history: the last request and what its calls came to
    ev_before,      \* history: the table when the last request came in
    \* ---- the store pool of src/prueba/adsad.py ----
    pl_used,        \* self.pool: the connections that are checked out
    pl_main,        \* _update_missing_llm_answers: where the main thread is
    pl_pc,          \* per pool thread: where it is in _save_to_db
    pl_conn,        \* per thread (0: the main thread): conn (0: none taken yet)
    pl_puts,        \* history, per thread: the _put_conn calls since its last _get_conn
    pl_path,        \* history, per pool thread: how its last _save_to_db went
    \* ---- export_db_to_json (src/LLM_Client/app.py) ----
    ex_file,        \* /data/questions_backup.json
    ex_table,       \* table questions: id -> llm_answer
    ex_last         \* history: the last export_db_to_json call

cmVars == <<cache_size, cache_policy, cm_redis, cm_touch, cm_clock, cm_last,
           cm_order, cm_access>>

llmVars == <<api_keys, key_index, redis_client, questions_table, processed_count,
             questions, pc, q, answer, source, result, tried, keys_to_try,
             consulted, exhausted, cache_written, client_resolved,
             cache_failed, used_keys, rotated, writes>>

grokVars == <<API_KEYS, cycle_pos, tried_keys, grok_key, grok_pc, grok_attempts>>

adVars == <<ad_api_keys, ad_key_index, ad_redis, ad_table, ad_main, ad_queue, ad_exception,
            ad_pc, ad_question, ad_answer, ad_depth, ad_read, ad_ret, ad_source,
            ad_saved, ad_resp, ad_expected, ad_writes>>

lfuVars == <<cm_count>>

stVars == <<st_prog, st_env, st_keys, st_pc, st_attempt, st_conn, st_touched>>

upVars == <<up_table, up_before, up_data, up_error>>

tgVars == <<tg_redis, tg_rows, tg_i, tg_hits, tg_misses, tg_data, tg_writes>>

flVars == <<fl_failed, fl_questions, fl_last, fl_emits>>

rtVars == <<cm_value>>

gmVars == <<start_index, last_key, last_status, slept>>

evVars == <<ev_table, ev_conn, ev_status, ev_req, ev_before>>

plVars == <<pl_used, pl_main, pl_pc, pl_conn, pl_puts, pl_path>>

exVars == <<ex_file, ex_table, ex_last>>

moreVars == <<flVars, rtVars, gmVars, evVars, plVars, exVars>>

vars == <<cmVars, llmVars, grokVars, adVars, lfuVars, stVars, upVars, tgVars, moreVars>>

\* A key that is not in Redis / a column that is NULL.
NoVal == "<none>"

\* Python None / SQL NULL for a text: a text no program text equals.
None == <<NoVal>>

(***************************************************************************)
(* Bounds of the model.                                                    *)
(***************************************************************************)
MaxCacheSize == 2      \* CACHE_SIZE ranges over 0..MaxCacheSize
MaxClock == 2          \* ticks of the Redis LRU clock that are told apart

(***************************************************************************)
(* CacheManager                                                            *)
(***************************************************************************)
CKeys == {"k1", "k2", "k3"}

\* The Python values set() is given and get() returns.  A str holds its
\* characters, an int its number, a list its items, a dict its (key, value)
\* pairs in insertion order.
PyStr(t) == [kind |-> "str", val |-> t]
PyInt(n) == [kind |-> "int", val |-> n]
PyList(items) == [kind |-> "list", val |-> items]
PyDict(pairs) == [kind |-> "dict", val |-> pairs]
PyNone == [kind |-> "none", val |-> <<>>]

\* Python ==, on values of the kinds above.
PyEq(a, b) == a.kind = b.kind /\ a.val = b.val

\* str(n) and json.dumps(n) of an int 0..99: its decimal digits.
DigitChar(d) ==
    CASE d = 0 -> "0" [] d = 1 -> "1" [] d = 2 -> "2" [] d = 3 -> "3" [] d = 4 -> "4"
      [] d = 5 -> "5" [] d = 6 -> "6" [] d = 7 -> "7" [] d = 8 -> "8" [] d = 9 -> "9"

IntText(n) == IF n < 10 THEN <<DigitChar(n)>> ELSE <<DigitChar(n \div 10), DigitChar(n % 10)>>

\* json.dumps(value): a str in double quotes (the characters of the model
\* need no escape), the items of a list between "[" and "]" and the pairs
\* of a dict as "key": value between "{" and "}", separated by ", ".
RECURSIVE JsonDumps(_)
RECURSIVE JsonJoin(_)
JsonJoin(texts) ==
    IF texts = <<>> THEN <<>>
    ELSE IF Len(texts) = 1 THEN texts[1]
    ELSE texts[1] \o <<",", " ">> \o JsonJoin(Tail(texts))

JsonDumps(value) ==
    CASE value.kind = "str" -> <<"\"">> \o value.val \o <<"\"">>
      [] value.kind = "int" -> IntText(value.val)
      [] value.kind = "list" ->
            <<"[">> \o JsonJoin([i \in DOMAIN value.val |-> JsonDumps(value.val[i])])
                   \o <<"]">>
      [] value.kind = "dict" ->
            <<"{">> \o JsonJoin([i \in DOMAIN value.val |->
                                    JsonDumps(PyStr(value.val[i][1])) \o <<":", " ">>
                                        \o JsonDumps(value.val[i][2])])
                   \o <<"}">>
      [] OTHER -> <<"n", "u", "l", "l">>

\* str(value) of a str or an int.
Str(value) == IF value.kind = "str" THEN value.val ELSE IntText(value.val)

\* A mutant of set: a str is stored as JSON too.
ValueToStoreAllJson(value) == JsonDumps(value)

\* set: value_to_store
ValueToStore(value) ==
    IF value.kind \in {"dict", "list"} THEN JsonDumps(value) ELSE Str(value)

\* The values of the model: a str that is not JSON, a str that reads as a
\* JSON number, an int, a list and a dict.
RoundValues ==
    {PyStr(<<"v">>), PyStr(<<"1">>), PyInt(1), PyList(<<PyInt(1)>>),
     PyDict(<<<<<<"a">>, PyInt(1)>>>>)}

\* The values the other specifications of CacheManager store.
CValues == {PyStr(<<"v">>), PyInt(1)}

\* The JSON documents json.loads is given in the model: every text below is
\* the document of one value.
JsonValues == RoundValues \cup {PyInt(n) : n \in 0..9}

\* get: json.loads(value), or value itself on JSONDecodeError.
JsonLoadsOrRaw(text) ==
    IF \E v \in JsonValues : JsonDumps(v) = text
    THEN CHOOSE v \in JsonValues : JsonDumps(v) = text
    ELSE PyStr(text)

\* get: what it returns for what redis_client.get(key) gave.
GetResult(stored) == IF stored = None THEN PyNone ELSE JsonLoadsOrRaw(stored)
Policies == {"LRU", "FIFO", "LFU", "RANDOM"}

\* redis_client.keys('*'): the resident keys (Redis returns them in no
\* particular order, so keys[0] is any of them).
Resident(redis) == {k \in DOMAIN redis : redis[k] # None}

\* _get_cache_size: redis_client.dbsize()
GetCacheSize(redis) == Cardinality(Resident(redis))

\* _evict_lru: deletes keys[0].
EvictLruVictims(redis) == Resident(redis)

\* _evict_fifo: min(keys, key=idletime): a key with the smallest idle time,
\* that is the largest last-access tick; among equal idle times min() keeps
\* the first of keys('*'), which is any of them.
EvictFifoVictims(redis, touch) ==
    {k \in Resident(redis) : \A j \in Resident(redis) : touch[j] <= touch[k]}

\* _evict_lfu: deletes keys[0].
EvictLfuVictims(redis) == Resident(redis)

\* _evict_random: random.choice(keys).
EvictRandomVictims(redis) == Resident(redis)

\* The keys one policy may delete.
Victims(policy, redis, touch) ==
    CASE policy = "LRU" -> EvictLruVictims(redis)
      [] policy = "FIFO" -> EvictFifoVictims(redis, touch)
      [] policy = "LFU" -> EvictLfuVictims(redis)
      [] OTHER -> EvictRandomVictims(redis)

\* A mutant of _evict_if_needed for C1: the test is > instead of >=.
EvictNeededOffByOne(size, capacity) == size > capacity

\* _evict_if_needed: the test that decides whether one eviction takes place.
EvictNeeded(size, capacity) == size >= capacity

\* _evict_if_needed: the stores it may leave: at most ONE entry is deleted
\* (there is no loop), and none when keys('*') is empty.
EvictIfNeeded(redis, touch, capacity, policy) ==
    IF EvictNeeded(GetCacheSize(redis), capacity) /\ Resident(redis) # {}
    THEN {[redis EXCEPT ![v] = None] : v \in Victims(policy, redis, touch)}
    ELSE {redis}

\* A sequence of keys without key k.
Without(keys, k) == SelectSeq(keys, LAMBDA x : x # k)

\* A sequence of keys with key k moved (or added) to its end.
MovedLast(keys, k) == Append(Without(keys, k), k)

\* The key _evict_if_needed deleted, given the store before and after it.
Evicted(before, after) ==
    IF Resident(before) = Resident(after) THEN NoVal
    ELSE CHOOSE k \in Resident(before) : k \notin Resident(after)

\* CacheManager.set(key, value): evict if needed, then SETEX.  failAt says
\* where the Redis transport raises: nowhere, inside _evict_if_needed before
\* anything was deleted, or at SETEX after the eviction was applied.
CacheSet(k, v, failAt) ==
    /\ \E evicted \in EvictIfNeeded(cm_redis, cm_touch, cache_size, cache_policy) :
         LET victim == Evicted(cm_redis, evicted)
             order == Without(cm_order, victim)
             access == Without(cm_access, victim)
         IN  CASE failAt = "none" ->
                    /\ cm_redis' = [evicted EXCEPT ![k] = ValueToStore(v)]
                    /\ cm_touch' = [cm_touch EXCEPT ![k] = cm_clock]
                    /\ cm_order' = IF evicted[k] # None THEN order ELSE Append(order, k)
                    /\ cm_access' = MovedLast(access, k)
                    /\ cm_last' = [op |-> "set", key |-> k, result |-> "True",
                                   evicted |-> victim]
               [] failAt = "evict" ->
                    /\ UNCHANGED <<cm_redis, cm_touch, cm_order, cm_access>>
                    /\ cm_last' = [op |-> "set", key |-> k, result |-> "False",
                                   evicted |-> NoVal]
               [] OTHER ->
                    /\ cm_redis' = evicted
                    /\ cm_order' = order
                    /\ cm_access' = access
                    /\ UNCHANGED cm_touch
                    /\ cm_last' = [op |-> "set", key |-> k, result |-> "False",
                                   evicted |-> victim]
    /\ UNCHANGED <<cache_size, cache_policy, cm_clock>>

\* CacheManager.get(key): GET touches the key's last-access time.
CacheGet(k) ==
    /\ cm_touch' = IF cm_redis[k] # None
                   THEN [cm_touch EXCEPT ![k] = cm_clock] ELSE cm_touch
    /\ cm_access' = IF cm_redis[k] # None THEN MovedLast(cm_access, k) ELSE cm_access
    /\ cm_last' = [op |-> "get", key |-> k, result |-> GetResult(cm_redis[k]),
                   evicted |-> NoVal]
    /\ UNCHANGED <<cache_size, cache_policy, cm_redis, cm_clock, cm_order>>

\* Redis drops a key whose TTL (SETEX) has run out.
CacheExpire(k) ==
    /\ cm_redis[k] # None
    /\ cm_redis' = [cm_redis EXCEPT ![k] = None]
    /\ cm_order' = Without(cm_order, k)
    /\ cm_access' = Without(cm_access, k)
    /\ cm_last' = [op |-> "expire", key |-> k, result |-> NoVal, evicted |-> NoVal]
    /\ UNCHANGED <<cache_size, cache_policy, cm_touch, cm_clock>>

\* Another client of the same Redis database writes a key with SETEX and
\* no eviction, as LLMClient.cache_answer does.
OtherClientSetex(k, v) ==
    /\ cm_redis' = [cm_redis EXCEPT ![k] = ValueToStore(v)]
    /\ cm_touch' = [cm_touch EXCEPT ![k] = cm_clock]
    /\ cm_order' = IF cm_redis[k] # None THEN cm_order ELSE Append(cm_order, k)
    /\ cm_access' = MovedLast(cm_access, k)
    /\ cm_last' = [op |-> "other", key |-> k, result |-> NoVal, evicted |-> NoVal]
    /\ UNCHANGED <<cache_size, cache_policy, cm_clock>>

\* Time passes: the Redis clock advances by one tick of its resolution.
CacheTick ==
    /\ cm_clock < MaxClock
    /\ cm_clock' = cm_clock + 1
    /\ cm_last' = [op |-> "tick", key |-> NoVal, result |-> NoVal, evicted |-> NoVal]
    /\ UNCHANGED <<cache_size, cache_policy, cm_redis, cm_touch, cm_order, cm_access>>

CmIdle ==
    /\ cache_size = 0
    /\ cache_policy = "LRU"
    /\ cm_redis = [k \in CKeys |-> None]
    /\ cm_touch = [k \in CKeys |-> 0]
    /\ cm_clock = 0
    /\ cm_last = [op |-> "init", key |-> NoVal, result |-> NoVal, evicted |-> NoVal]
    /\ cm_order = <<>>
    /\ cm_access = <<>>

\* CacheManager.__init__ on an empty Redis, for every CACHE_SIZE and policy.
InitCache ==
    /\ cache_size \in 0..MaxCacheSize
    /\ cache_policy \in Policies
    /\ cm_redis = [k \in CKeys |-> None]
    /\ cm_touch = [k \in CKeys |-> 0]
    /\ cm_clock = 0
    /\ cm_last = [op |-> "init", key |-> NoVal, result |-> NoVal, evicted |-> NoVal]
    /\ cm_order = <<>>
    /\ cm_access = <<>>


(***************************************************************************)
(* Texts.  A text is a sequence of characters, so that strip(), lower()    *)
(* and ILIKE '%q%' are computed and not assumed.                           *)
(***************************************************************************)

\* Python truthiness of an Optional[str]: None and "" are falsy.
Truthy(t) == t # None /\ t # <<>>

\* str.lower() on one character.
LowerChar(c) == IF c = "A" THEN "a" ELSE c

\* str.lower()
Lower(t) == [i \in 1..Len(t) |-> LowerChar(t[i])]

\* str.strip(): drops the leading and the trailing blanks.
RECURSIVE LStrip(_)
LStrip(t) == IF t # <<>> /\ Head(t) = " " THEN LStrip(Tail(t)) ELSE t

RECURSIVE RStrip(_)
RStrip(t) ==
    IF t # <<>> /\ t[Len(t)] = " " THEN RStrip(SubSeq(t, 1, Len(t) - 1)) ELSE t

Strip(t) == RStrip(LStrip(t))

\* text ILIKE '%pat%' for a pattern without the LIKE wildcards % _ \ :
\* pat occurs in text, case ignored.
ILikeContains(text, pat) ==
    \E i \in 1..(Len(text) - Len(pat) + 1) :
        SubSeq(Lower(text), i, i + Len(pat) - 1) = Lower(pat)

(***************************************************************************)
(* LLMClient (src/LLM_Client/app.py)                                       *)
(***************************************************************************)
MaxKeys == 2           \* 1..MaxKeys of GEMINI_API_KEY1..5 are set
MaxRows == 2           \* rows of table questions when run_batches starts
MaxQuestions == 3      \* run_batches(max_questions=...)
BatchSize == 2         \* run_batches(batch_size=...)

\* question_text values: Q2 contains Q1, and Q3 differs from Q1 by case and
\* a trailing blank only.
Q1 == <<"a">>
Q2 == <<"a", "b">>
Q3 == <<"A", " ">>
QuestionTexts == {Q1, Q2, Q3}

HumanAnswer == <<"h">>         \* a human_answer of the dataset
OldAnswer == <<"p">>           \* an llm_answer stored before this run
\* Texts Gemini answers with (candidates[0].content.parts[0].text).
GeminiTexts == {<<"x", " ">>, <<" ">>}
\* resp.text of a 200 response whose JSON holds no usable text.
RawBody == <<"{", "}">>
\* "Error al consultar Gemini: todas las keys probaron y fallaron (...)"
ErrorMessage == <<"E">>

\* _generate_cache_key: f"llm_answer:{hash(question.strip().lower())}".
\* hash() is taken as injective within one process.
GenerateCacheKey(question) == Lower(Strip(question))

CacheKeys == {GenerateCacheKey(t) : t \in QuestionTexts}

\* get_cached_answer: GET of the question's cache key.
GetCachedAnswer(cache, question) == cache[GenerateCacheKey(question)]

\* A mutant of cache_answer: the SETEX is lost.
CacheAnswerLost(cache, question, ans) == cache

\* cache_answer when SETEX succeeds.
CacheAnswer(cache, question, ans) ==
    [cache EXCEPT ![GenerateCacheKey(question)] = ans]

\* get_answer_from_db: SELECT llm_answer FROM questions WHERE question_text
\* ILIKE '%q%' AND llm_answer IS NOT NULL LIMIT 1.  There is no ORDER BY:
\* any matching row may be the one returned; None when none matches.
GetAnswerFromDb(table, question) ==
    LET matching == {i \in DOMAIN table :
                        /\ ILikeContains(table[i].question_text, question)
                        /\ table[i].llm_answer # None}
    IN  IF matching = {} THEN {None} ELSE {table[i].llm_answer : i \in matching}

\* Python "human_answer or ''"
OrEmpty(t) == IF Truthy(t) THEN t ELSE <<>>

\* SQL COALESCE(a, b)
Coalesce(a, b) == IF a # None THEN a ELSE b

\* A mutant of save_question_answer_to_db: llm_answer is not written.
SaveKeepsLlmAnswer(table, question, llm, human) == table

\* save_question_answer_to_db(question, llm_answer, human_answer)
SaveQuestionAnswerToDb(table, question, llm, human) ==
    IF \E i \in DOMAIN table : table[i].question_text = question
    THEN [i \in DOMAIN table |->
            IF table[i].question_text = question
            THEN [table[i] EXCEPT
                    !.llm_answer = llm,
                    !.human_answer = Coalesce(OrEmpty(human), table[i].human_answer)]
            ELSE table[i]]
    ELSE Append(table, [question_text |-> question,
                        human_answer |-> OrEmpty(human),
                        llm_answer |-> llm])

\* The rows get_next_questions selects: llm_answer IS NULL.
Pending(table) == {i \in DOMAIN table : table[i].llm_answer = None}

Min(a, b) == IF a < b THEN a ELSE b

\* The sequences of n distinct elements of S, in every order.
RECURSIVE Orderings(_, _)
Orderings(S, n) ==
    IF n = 0 THEN {<<>>}
    ELSE UNION {{<<x>> \o rest : rest \in Orderings(S \ {x}, n - 1)} : x \in S}

\* get_next_questions(limit): SELECT question_text ... WHERE llm_answer IS
\* NULL LIMIT limit, without ORDER BY: any limit pending rows in any order.
GetNextQuestions(table, limit) ==
    {[i \in 1..Len(o) |-> table[o[i]].question_text] :
        o \in Orderings(Pending(table), Min(limit, Cardinality(Pending(table))))}

\* A mutant of _rotate_key: the index stops at the last credential.
RotateKeySaturating(index, keys) == IF index + 1 < Len(keys) THEN index + 1 ELSE index

\* A mutant of _rotate_key: the index advances by two.
RotateKeyByTwo(index, keys) == (index + 2) % Len(keys)

\* _rotate_key
RotateKey(index, keys) == (index + 1) % Len(keys)

\* The last n entries of a sequence.
LastN(seq, n) == IF Len(seq) <= n THEN seq ELSE SubSeq(seq, Len(seq) - n + 1, Len(seq))

\* What _call_gemini_once can return, as (status, kind of body, text).
GeminiResponses ==
    {[status |-> 0, body |-> "none", text |-> <<>>]}            \* RequestException: status None
    \cup {[status |-> s, body |-> "none", text |-> <<>>] : s \in {429, 503, 500, 403, 400}}
    \cup {[status |-> 200, body |-> "none", text |-> <<>>]}     \* 200, body is not JSON
    \cup {[status |-> 200, body |-> "candidates", text |-> t] : t \in GeminiTexts}
    \cup {[status |-> 200, body |-> "other", text |-> <<>>]}    \* 200, JSON without text

\* A mutant of get_answer_from_gemini: a 400 ends the call at once.
GeminiReturnsOrBadRequest(r) == (r.status = 200 /\ r.body # "none") \/ r.status = 400

\* get_answer_from_gemini: "status == 200 and j is not None": the call returns.
GeminiReturns(r) == r.status = 200 /\ r.body # "none"

\* get_answer_from_gemini: the text returned for such a response.
GeminiText(r) ==
    IF r.body = "candidates" /\ r.text # <<>> THEN Strip(r.text) ELSE Strip(RawBody)

\* A mutant of run_batches: a cached answer is not taken as a hit.
CacheHitNever(cached) == FALSE

\* run_batches: "if cached:"
CacheHit(cached) == Truthy(cached)

\* run_batches: "if db_ans:"
DbHit(db_ans) == Truthy(db_ans)

NoResult == [question |-> None, answer |-> None, source |-> "none"]

\* One resolution starts with a clean history.
ResetHistory ==
    /\ consulted' = <<>>
    /\ exhausted' = FALSE
    /\ cache_written' = FALSE
    /\ cache_failed' = FALSE
    /\ writes' = <<>>

\* run_batches, "while processed_count < max_questions": fetch the next batch.
FetchBatch ==
    /\ pc = "while"
    /\ UNCHANGED writes
    /\ IF processed_count >= MaxQuestions
       THEN /\ pc' = "end"
            /\ UNCHANGED questions
       ELSE \E batch \in GetNextQuestions(questions_table, BatchSize) :
               /\ questions' = batch
               /\ pc' = IF batch = <<>> THEN "end" ELSE "for"
    /\ result' = NoResult
    /\ UNCHANGED <<api_keys, key_index, redis_client, questions_table, processed_count,
                   q, answer, source, tried, consulted, exhausted,
                   cache_written, client_resolved>>
    /\ UNCHANGED <<keys_to_try, cache_failed, used_keys, rotated>>

\* "for q in questions": the next question, or the end of the batch.
NextQuestion ==
    /\ pc = "for"
    /\ IF questions = <<>> \/ processed_count >= MaxQuestions
       THEN /\ pc' = "export"
            /\ UNCHANGED <<q, questions>>
       ELSE /\ q' = Head(questions)
            /\ questions' = Tail(questions)
            /\ pc' = "cache"
    /\ result' = NoResult
    /\ answer' = None
    /\ source' = "none"
    /\ ResetHistory
    /\ UNCHANGED <<api_keys, key_index, redis_client, questions_table, processed_count,
                   tried, client_resolved>>
    /\ UNCHANGED <<keys_to_try, used_keys, rotated>>

\* 1) cached = self.get_cached_answer(q); a Redis error is an exception
\* that the "except Exception" of the loop body logs.
CacheLookup(ok) ==
    /\ pc = "cache"
    /\ UNCHANGED writes
    /\ consulted' = Append(consulted, "cache")
    /\ IF ~ok
       THEN /\ pc' = "for"
            /\ UNCHANGED <<answer, source>>
       ELSE IF CacheHit(GetCachedAnswer(redis_client, q))
       THEN /\ answer' = GetCachedAnswer(redis_client, q)
            /\ source' = "cache"
            /\ pc' = "count"
       ELSE /\ pc' = "db"
            /\ UNCHANGED <<answer, source>>
    /\ UNCHANGED <<api_keys, key_index, redis_client, questions_table, processed_count,
                   questions, q, result, tried, exhausted, cache_written,
                   client_resolved>>
    /\ cache_failed' = ~ok
    /\ UNCHANGED <<keys_to_try, used_keys, rotated>>

\* 2) db_ans = self.get_answer_from_db(q)
DbLookup(ok) ==
    /\ pc = "db"
    /\ UNCHANGED writes
    /\ consulted' = Append(consulted, "store")
    /\ IF ~ok
       THEN /\ pc' = "for"
            /\ UNCHANGED <<answer, source, tried, keys_to_try, used_keys>>
       ELSE \E db_ans \in GetAnswerFromDb(questions_table, q) :
              IF DbHit(db_ans)
              THEN /\ answer' = db_ans
                   /\ source' = "database"
                   /\ pc' = "cachew"
                   /\ UNCHANGED <<tried, keys_to_try, used_keys>>
              ELSE /\ pc' = "gemini"
                   /\ tried' = 0
                   /\ keys_to_try' = Len(api_keys)
                   /\ used_keys' = {}
                   /\ UNCHANGED <<answer, source>>
    /\ UNCHANGED <<api_keys, key_index, redis_client, questions_table, processed_count,
                   questions, q, result, exhausted, cache_written,
                   client_resolved>>
    /\ UNCHANGED <<cache_failed, rotated>>

\* 3) get_answer_from_gemini, one turn of "while tried < keys_to_try" with
\* the response r of _call_gemini_once.
GeminiAttempt(r) ==
    /\ pc = "gemini"
    /\ UNCHANGED writes
    /\ tried < keys_to_try
    /\ used_keys' = used_keys \cup {api_keys[key_index + 1]}
    /\ consulted' = IF tried = 0 THEN Append(consulted, "client") ELSE consulted
    /\ IF GeminiReturns(r)
       THEN /\ answer' = GeminiText(r)
            /\ source' = "gemini"
            /\ pc' = "save"
            /\ UNCHANGED <<key_index, tried, rotated>>
       ELSE /\ key_index' = RotateKey(key_index, api_keys)
            /\ tried' = tried + 1
            /\ rotated' = LastN(Append(rotated, RotateKey(key_index, api_keys)),
                                Len(api_keys))
            /\ UNCHANGED <<answer, source, pc>>
    /\ UNCHANGED <<api_keys, redis_client, questions_table, processed_count,
                   questions, q, result, exhausted, cache_written,
                   client_resolved>>
    /\ UNCHANGED <<keys_to_try, cache_failed>>

\* get_answer_from_gemini: the loop is over, the error message is returned,
\* and run_batches takes it as the answer.  The message is built with the
\* last status: when the loop made no turn (keys_to_try = 0) status is
\* unbound and the return raises UnboundLocalError.
GeminiGiveUp ==
    /\ pc = "gemini"
    /\ UNCHANGED writes
    /\ tried >= keys_to_try
    /\ IF tried = 0
       THEN /\ pc' = "raised"
            /\ UNCHANGED <<answer, source, exhausted>>
       ELSE /\ answer' = ErrorMessage
            /\ source' = "gemini"
            /\ exhausted' = TRUE
            /\ pc' = "save"
    /\ UNCHANGED <<api_keys, key_index, redis_client, questions_table, processed_count,
                   questions, q, result, tried, consulted, cache_written,
                   client_resolved>>
    /\ UNCHANGED <<keys_to_try, cache_failed, used_keys, rotated>>

\* get_answer_from_gemini(question, max_key_attempts) called on its own:
\* keys_to_try is max_key_attempts when one is given, else len(api_keys).
GeminiCall(question, given, max_key_attempts) ==
    /\ pc \in {"call", "save", "raised"}
    /\ UNCHANGED writes
    /\ q' = question
    /\ keys_to_try' = IF given THEN max_key_attempts ELSE Len(api_keys)
    /\ tried' = 0
    /\ used_keys' = {}
    /\ exhausted' = FALSE
    /\ answer' = None
    /\ source' = "none"
    /\ consulted' = <<>>
    /\ pc' = "gemini"
    /\ UNCHANGED <<api_keys, key_index, redis_client, questions_table, processed_count,
                   questions, result, cache_written, client_resolved, cache_failed,
                   rotated>>

\* get_answer_from_gemini is entered: start_index = self._key_index.
GmStarted ==
    /\ start_index' = key_index
    /\ last_key' = -1
    /\ last_status' = -1
    /\ slept' = FALSE

\* One turn of the loop of get_answer_from_gemini with the response r: the
\* request went out with the current credential.  The loop has no
\* time.sleep.
GmTracked(r) ==
    /\ last_key' = key_index
    /\ last_status' = r.status
    /\ slept' = FALSE
    /\ UNCHANGED start_index

GmIdle ==
    /\ start_index = 0
    /\ last_key = -1
    /\ last_status = -1
    /\ slept = FALSE

\* self.save_question_answer_to_db(q, answer); a database error is an
\* exception that the loop body logs.
SaveAnswer(ok) ==
    /\ pc = "save"
    /\ writes' = Append(writes, "store")
    /\ IF ok
       THEN /\ questions_table' = SaveQuestionAnswerToDb(questions_table, q, answer, <<>>)
            /\ pc' = "cachew"
       ELSE /\ pc' = "for"
            /\ UNCHANGED questions_table
    /\ UNCHANGED <<api_keys, key_index, redis_client, processed_count, questions, q,
                   answer, source, result, tried, consulted, exhausted,
                   cache_written, client_resolved>>
    /\ UNCHANGED <<keys_to_try, cache_failed, used_keys, rotated>>

\* A mutant of run_batches: cache_answer is not called.
WriteCacheSkipped(ok) ==
    /\ pc = "cachew"
    /\ pc' = "count"
    /\ UNCHANGED <<api_keys, key_index, redis_client, questions_table, processed_count,
                   questions, q, answer, source, result, tried, consulted,
                   exhausted, cache_written, client_resolved>>
    /\ UNCHANGED <<keys_to_try, cache_failed, used_keys, rotated, writes>>

\* self.cache_answer(q, answer): a Redis error is logged and swallowed.
WriteCache(ok) ==
    /\ pc = "cachew"
    /\ writes' = Append(writes, "cache")
    /\ redis_client' = IF ok THEN CacheAnswer(redis_client, q, answer) ELSE redis_client
    /\ cache_written' = ok
    /\ pc' = "count"
    /\ UNCHANGED <<api_keys, key_index, questions_table, processed_count,
                   questions, q, answer, source, result, tried, consulted,
                   exhausted, client_resolved>>
    /\ UNCHANGED <<keys_to_try, cache_failed, used_keys, rotated>>

\* processed_count += 1; result = {...}
CountResult ==
    /\ pc = "count"
    /\ UNCHANGED writes
    /\ processed_count' = processed_count + 1
    /\ result' = [question |-> q, answer |-> answer, source |-> source]
    /\ pc' = "for"
    /\ client_resolved' = IF source = "gemini" /\ ~exhausted /\ cache_written
                          THEN client_resolved \cup {q} ELSE client_resolved
    /\ UNCHANGED <<api_keys, key_index, redis_client, questions_table, questions, q,
                   answer, source, tried, consulted, exhausted, cache_written>>
    /\ UNCHANGED <<keys_to_try, cache_failed, used_keys, rotated>>

\* export_db_to_json, then the limit test and the sleep before the next batch.
ExportAndWait ==
    /\ pc = "export"
    /\ UNCHANGED writes
    /\ pc' = IF processed_count >= MaxQuestions THEN "end" ELSE "while"
    /\ UNCHANGED <<api_keys, key_index, redis_client, questions_table, processed_count,
                   questions, q, answer, source, result, tried, consulted,
                   exhausted, cache_written, client_resolved>>
    /\ UNCHANGED <<keys_to_try, cache_failed, used_keys, rotated>>

\* Redis drops a cache entry whose TTL (3600 s) has run out.  The cache is
\* read only at the start of a resolution, so that is where expiry shows.
ExpireAnswer(k) ==
    /\ pc = "cache"
    /\ UNCHANGED writes
    /\ redis_client[k] # None
    /\ redis_client' = [redis_client EXCEPT ![k] = None]
    /\ UNCHANGED <<api_keys, key_index, questions_table, processed_count,
                   questions, pc, q, answer, source, result, tried, consulted,
                   exhausted, cache_written, client_resolved>>
    /\ UNCHANGED <<keys_to_try, cache_failed, used_keys, rotated>>

\* The rows the table may hold when run_batches starts.
InitialRows ==
    [question_text : QuestionTexts, human_answer : {HumanAnswer},
     llm_answer : {None, OldAnswer}]

\* The number of rows with llm_answer IS NOT NULL (already_answered).
AlreadyAnswered(table) == Cardinality(DOMAIN table \ Pending(table))

LlmIdle ==
    /\ api_keys = <<"key1">>
    /\ key_index = 0
    /\ redis_client = [k \in CacheKeys |-> None]
    /\ questions_table = <<>>
    /\ processed_count = 0
    /\ questions = <<>>
    /\ pc = "end"
    /\ q = None
    /\ answer = None
    /\ source = "none"
    /\ result = NoResult
    /\ tried = 0
    /\ keys_to_try = 0
    /\ consulted = <<>>
    /\ exhausted = FALSE
    /\ cache_written = FALSE
    /\ client_resolved = {}
    /\ cache_failed = FALSE
    /\ used_keys = {}
    /\ rotated = <<>>
    /\ writes = <<>>

\* LLMClient.__init__ and the head of run_batches.
InitLlm ==
    /\ api_keys \in {[i \in 1..n |-> i] : n \in 1..MaxKeys}
    /\ key_index = 0
    /\ redis_client = [k \in CacheKeys |-> None]
    /\ questions_table \in [1..MaxRows -> InitialRows]
    /\ processed_count = AlreadyAnswered(questions_table)
    /\ questions = <<>>
    /\ pc = "while"
    /\ q = None
    /\ answer = None
    /\ source = "none"
    /\ result = NoResult
    /\ tried = 0
    /\ keys_to_try = 0
    /\ consulted = <<>>
    /\ exhausted = FALSE
    /\ cache_written = FALSE
    /\ client_resolved = {}
    /\ cache_failed = FALSE
    /\ used_keys = {}
    /\ rotated = <<>>
    /\ writes = <<>>

\* An LLMClient whose get_answer_from_gemini is called directly, with any
\* _key_index earlier calls may have left.
InitGemini ==
    /\ api_keys \in {[i \in 1..n |-> i] : n \in 1..MaxKeys}
    /\ key_index \in 0..(Len(api_keys) - 1)
    /\ redis_client = [k \in CacheKeys |-> None]
    /\ questions_table = <<>>
    /\ processed_count = 0
    /\ questions = <<>>
    /\ pc = "call"
    /\ q = None
    /\ answer = None
    /\ source = "none"
    /\ result = NoResult
    /\ tried = 0
    /\ keys_to_try = 0
    /\ consulted = <<>>
    /\ exhausted = FALSE
    /\ cache_written = FALSE
    /\ client_resolved = {}
    /\ cache_failed = FALSE
    /\ used_keys = {}
    /\ rotated = <<>>
    /\ writes = <<>>


(***************************************************************************)
(* call_grok (src/prueba/app.py)                                           *)
(***************************************************************************)
MaxGrokKeys == 3       \* OPENROUTER_API_KEY lists 1..MaxGrokKeys credentials

\* The credentials OPENROUTER_API_KEY may name; a list may name one twice.
GrokKeyNames == {"ka", "kb"}

\* What one requests.post of call_grok can come to: a response with
\* choices whose content is a string or a list of segments, a response
\* without choices, or an exception (timeout, connection, bad JSON).
GrokResponses == {"content_str", "content_list", "no_choices", "exception"}

\* call_grok: "if 'choices' in data and data['choices']": the call returns.
GrokReturns(r) == r \in {"content_str", "content_list"}

\* call_grok: "while len(tried_keys) < len(API_KEYS)"
GrokLoopGoesOn(tried_set, keys) == Cardinality(tried_set) < Len(keys)

\* call_grok is entered.
GrokStart ==
    /\ grok_pc \in {"idle", "returned", "raised"}
    /\ tried_keys' = {}
    /\ grok_attempts' = 0
    /\ grok_pc' = "while"
    /\ UNCHANGED <<API_KEYS, cycle_pos, grok_key>>

\* The loop test, then key = next(api_keys_cycle) and the "continue" for a
\* key that was tried; RuntimeError when the loop test fails.
GrokNextKey ==
    /\ grok_pc = "while"
    /\ IF GrokLoopGoesOn(tried_keys, API_KEYS)
       THEN /\ grok_key' = API_KEYS[cycle_pos]
            /\ cycle_pos' = (cycle_pos % Len(API_KEYS)) + 1
            /\ IF API_KEYS[cycle_pos] \in tried_keys
               THEN UNCHANGED <<tried_keys, grok_pc>>
               ELSE /\ tried_keys' = tried_keys \cup {API_KEYS[cycle_pos]}
                    /\ grok_pc' = "post"
       ELSE /\ grok_pc' = "raised"
            /\ UNCHANGED <<grok_key, cycle_pos, tried_keys>>
    /\ UNCHANGED <<API_KEYS, grok_attempts>>

\* requests.post with the key, and what follows its response r.
GrokPost(r) ==
    /\ grok_pc = "post"
    /\ grok_attempts' = grok_attempts + 1
    /\ grok_pc' = IF GrokReturns(r) THEN "returned" ELSE "sleep"
    /\ UNCHANGED <<API_KEYS, cycle_pos, tried_keys, grok_key>>

\* time.sleep(wait_on_fail)
GrokSleep ==
    /\ grok_pc = "sleep"
    /\ grok_pc' = "while"
    /\ UNCHANGED <<API_KEYS, cycle_pos, tried_keys, grok_key, grok_attempts>>

GrokIdle ==
    /\ API_KEYS = <<"ka">>
    /\ cycle_pos = 1
    /\ tried_keys = {}
    /\ grok_key = NoVal
    /\ grok_pc = "idle"
    /\ grok_attempts = 0

\* The module is imported: API_KEYS is any non-empty list, the cycle is new.
InitGrok ==
    /\ API_KEYS \in UNION {[1..n -> GrokKeyNames] : n \in 1..MaxGrokKeys}
    /\ cycle_pos = 1
    /\ tried_keys = {}
    /\ grok_key = NoVal
    /\ grok_pc = "idle"
    /\ grok_attempts = 0


(***************************************************************************)
(* LLMClient of src/prueba/adsad.py                                        *)
(***************************************************************************)
MaxAdKeys == 2         \* OPENROUTER_API_KEY lists 1..MaxAdKeys credentials
MaxAdRows == 2         \* rows of table questions
NumWorkers == 2        \* threads of the ThreadPoolExecutor (MAX_WORKERS)
AdBatchSize == 2       \* BATCH_SIZE
RecursionLimit == 3    \* nested _call_llm frames the interpreter allows

Workers == 1..NumWorkers
AdQuestionTexts == {Q1, Q2}

\* message.content of a successful response: a list whose first segment
\* holds this text.
AdContents == {<<"x", " ">>, <<>>}

\* What one requests.post of _call_llm can come to: a 200 response whose
\* message content is a list of segments, the first with text c ("list"),
\* a 200 response whose message content is the plain string c ("str"), or
\* an HTTP error or a timeout ("error").
AdResponses == {[shape |-> "list", text |-> c] : c \in AdContents}
               \cup {[shape |-> "str", text |-> <<"x">>]}
               \cup {[shape |-> "error", text |-> <<>>]}

\* _call_llm, line 86: resp.json()["choices"][0]["message"]["content"][0]["text"]
\* evaluates for a list of segments; on a plain string content[0] is a
\* one-character string and ["text"] raises TypeError inside the try, as
\* raise_for_status and the timeout do on an error.
AdParses(r) == r.shape = "list"

\* _call_llm: "return content.strip() if content else ''"
AdContentText(content) == IF content # <<>> THEN Strip(content) ELSE <<>>

\* _process_question: "if cached:"
AdCacheHit(cached) == Truthy(cached)

\* _save_to_db when no statement fails: the row SELECT ... LIMIT 1 finds is
\* updated (any of the rows with that text), or a row is inserted.
AdSaveToDb(table, question, llm) ==
    LET found == {i \in DOMAIN table : table[i].question_text = question}
    IN  IF found # {}
        THEN {[table EXCEPT ![i].llm_answer = llm] : i \in found}
        ELSE {Append(table, [question_text |-> question,
                             human_answer |-> <<>>,
                             llm_answer |-> llm])}

\* The rows _update_missing_llm_answers selects: llm_answer = ''.
AdMissing(table) == {i \in DOMAIN table : table[i].llm_answer = <<>>}

\* SELECT question_text ... WHERE llm_answer='' LIMIT BATCH_SIZE
AdSelectMissing(table, limit) ==
    {[i \in 1..Len(o) |-> table[o[i]].question_text] :
        o \in Orderings(AdMissing(table), Min(limit, Cardinality(AdMissing(table))))}

\* Where a pool thread is when it runs no _process_question: it has run
\* none yet, or its last one returned, ended in RecursionError ("raised") or
\* in an exception of the Redis client ("failed").
AdFree == {"idle", "returned", "raised", "failed"}

AdAllDone == ad_queue = <<>> /\ \A w \in Workers : ad_pc[w] \in AdFree

\* _update_missing_llm_answers: select the batch and submit it.
AdSelect ==
    /\ ad_main = "select"
    /\ \E batch \in AdSelectMissing(ad_table, AdBatchSize) :
          /\ ad_queue' = batch
          /\ ad_main' = IF batch = <<>> THEN "end" ELSE "wait"
    /\ ad_pc' = [w \in Workers |-> "idle"]
    /\ UNCHANGED <<ad_api_keys, ad_key_index, ad_redis, ad_table, ad_question,
                   ad_answer, ad_depth, ad_read, ad_ret>>
    /\ UNCHANGED <<ad_source, ad_saved>>
    /\ ad_exception' = FALSE
    /\ UNCHANGED <<ad_resp, ad_expected, ad_writes>>

\* A pool thread takes the next submitted question: _process_question starts.
AdTake(w) ==
    /\ ad_main = "wait"
    /\ ad_pc[w] \in AdFree
    /\ ad_queue # <<>>
    /\ ad_question' = [ad_question EXCEPT ![w] = Head(ad_queue)]
    /\ ad_queue' = Tail(ad_queue)
    /\ ad_answer' = [ad_answer EXCEPT ![w] = None]
    /\ ad_depth' = [ad_depth EXCEPT ![w] = 0]
    /\ ad_pc' = [ad_pc EXCEPT ![w] = "get"]
    /\ UNCHANGED <<ad_api_keys, ad_key_index, ad_redis, ad_table, ad_main, ad_read>>
    /\ ad_ret' = [ad_ret EXCEPT ![w] = 0]
    /\ ad_source' = [ad_source EXCEPT ![w] = "none"]
    /\ ad_saved' = [ad_saved EXCEPT ![w] = FALSE]
    /\ UNCHANGED ad_exception
    /\ ad_writes' = [ad_writes EXCEPT ![w] = <<>>]
    /\ UNCHANGED <<ad_resp, ad_expected>>

\* cached = self.redis_client.get(question); a hit returns it.  An error
\* of the Redis client is an exception nothing in the thread catches.
AdCacheGet(w, ok) ==
    /\ ad_pc[w] = "get"
    /\ IF ~ok
       THEN /\ ad_pc' = [ad_pc EXCEPT ![w] = "failed"]
            /\ UNCHANGED <<ad_answer, ad_source>>
       ELSE IF AdCacheHit(ad_redis[ad_question[w]])
       THEN /\ ad_answer' = [ad_answer EXCEPT ![w] = ad_redis[ad_question[w]]]
            /\ ad_pc' = [ad_pc EXCEPT ![w] = "returned"]
            /\ ad_source' = [ad_source EXCEPT ![w] = "cache"]
       ELSE /\ ad_pc' = [ad_pc EXCEPT ![w] = "call"]
            /\ UNCHANGED <<ad_answer, ad_source>>
    /\ UNCHANGED <<ad_api_keys, ad_key_index, ad_redis, ad_table, ad_main,
                   ad_queue, ad_question, ad_depth, ad_read, ad_ret, ad_saved>>
    /\ ad_exception' = (ad_exception \/ ~ok)
    /\ UNCHANGED <<ad_resp, ad_expected, ad_writes>>

\* _call_llm: one requests.post and its response r.  A failure goes to
\* _rotate_key and then into the nested _call_llm.
AdCallLlm(w, r) ==
    /\ ad_pc[w] = "call"
    /\ IF AdParses(r)
       THEN /\ ad_answer' = [ad_answer EXCEPT ![w] = AdContentText(r.text)]
            /\ ad_pc' = [ad_pc EXCEPT ![w] = "set"]
       ELSE /\ ad_pc' = [ad_pc EXCEPT ![w] = "rotate"]
            /\ UNCHANGED ad_answer
    /\ UNCHANGED <<ad_api_keys, ad_key_index, ad_redis, ad_table, ad_main,
                   ad_queue, ad_question, ad_depth, ad_read, ad_ret>>
    /\ ad_source' = IF AdParses(r) THEN [ad_source EXCEPT ![w] = "client"] ELSE ad_source
    /\ UNCHANGED ad_saved
    /\ UNCHANGED ad_exception
    /\ ad_resp' = IF AdParses(r) THEN ad_resp ELSE [ad_resp EXCEPT ![w] = r.shape]
    /\ UNCHANGED <<ad_expected, ad_writes>>

\* A mutant of _rotate_key: the index is not taken modulo the length.
AdRotateIndexNoWrap(index, keys) == index + 1

\* _rotate_key: (self.key_index + 1) % len(self.api_keys)
AdRotateIndex(index, keys) == (index + 1) % Len(keys)

\* _rotate_key, the read of self.key_index.
AdRotateRead(w) ==
    /\ ad_pc[w] = "rotate"
    /\ ad_read' = [ad_read EXCEPT ![w] = ad_key_index]
    /\ ad_pc' = [ad_pc EXCEPT ![w] = "rotated"]
    /\ UNCHANGED <<ad_api_keys, ad_key_index, ad_redis, ad_table, ad_main,
                   ad_queue, ad_question, ad_answer, ad_depth, ad_ret>>
    /\ UNCHANGED <<ad_source, ad_saved>>
    /\ UNCHANGED ad_exception
    /\ ad_resp' = [ad_resp EXCEPT ![w] = "none"]
    /\ UNCHANGED <<ad_expected, ad_writes>>

\* _rotate_key, the store into self.key_index of the value computed from
\* what was read.
AdRotateWrite(w) ==
    /\ ad_pc[w] = "rotated"
    /\ ad_key_index' = AdRotateIndex(ad_read[w], ad_api_keys)
    /\ ad_pc' = [ad_pc EXCEPT ![w] = "return"]
    /\ UNCHANGED <<ad_api_keys, ad_redis, ad_table, ad_main, ad_queue,
                   ad_question, ad_answer, ad_depth, ad_read, ad_ret>>
    /\ UNCHANGED <<ad_source, ad_saved>>
    /\ UNCHANGED ad_exception
    /\ ad_expected' = (ad_expected + 1) % Len(ad_api_keys)
    /\ UNCHANGED <<ad_resp, ad_writes>>

\* _rotate_key, "return self.api_keys[self.key_index]" with the index as it
\* is now; then "return self._call_llm(question)": one more frame, or
\* RecursionError when the interpreter allows no more.
AdRotateReturn(w) ==
    /\ ad_pc[w] = "return"
    /\ ad_ret' = [ad_ret EXCEPT ![w] = ad_api_keys[ad_key_index + 1]]
    /\ IF ad_depth[w] + 1 >= RecursionLimit
       THEN /\ ad_pc' = [ad_pc EXCEPT ![w] = "raised"]
            /\ UNCHANGED ad_depth
       ELSE /\ ad_pc' = [ad_pc EXCEPT ![w] = "call"]
            /\ ad_depth' = [ad_depth EXCEPT ![w] = ad_depth[w] + 1]
    /\ UNCHANGED <<ad_api_keys, ad_key_index, ad_redis, ad_table, ad_main, ad_queue,
                   ad_question, ad_answer, ad_read>>
    /\ UNCHANGED <<ad_source, ad_saved>>
    /\ ad_exception' = (ad_exception \/ ad_depth[w] + 1 >= RecursionLimit)
    /\ UNCHANGED <<ad_resp, ad_expected, ad_writes>>

\* self.redis_client.set(question, llm_answer); an error of the Redis
\* client is an exception nothing in the thread catches.
AdCacheSet(w, ok) ==
    /\ ad_pc[w] = "set"
    /\ IF ok
       THEN /\ ad_redis' = [ad_redis EXCEPT ![ad_question[w]] = ad_answer[w]]
            /\ ad_pc' = [ad_pc EXCEPT ![w] = "save"]
       ELSE /\ ad_pc' = [ad_pc EXCEPT ![w] = "failed"]
            /\ UNCHANGED ad_redis
    /\ UNCHANGED <<ad_api_keys, ad_key_index, ad_table, ad_main, ad_queue,
                   ad_question, ad_answer, ad_depth, ad_read, ad_ret>>
    /\ UNCHANGED <<ad_source, ad_saved>>
    /\ ad_exception' = (ad_exception \/ ~ok)
    /\ ad_writes' = [ad_writes EXCEPT ![w] = Append(ad_writes[w], "cache")]
    /\ UNCHANGED <<ad_resp, ad_expected>>

\* self._save_to_db(question, llm_answer): committed, or an exception that
\* is logged and rolled back; _process_question returns either way.
AdSave(w, ok) ==
    /\ ad_pc[w] = "save"
    /\ IF ok
       THEN \E t \in AdSaveToDb(ad_table, ad_question[w], ad_answer[w]) : ad_table' = t
       ELSE UNCHANGED ad_table
    /\ ad_pc' = [ad_pc EXCEPT ![w] = "returned"]
    /\ UNCHANGED <<ad_api_keys, ad_key_index, ad_redis, ad_main, ad_queue,
                   ad_question, ad_answer, ad_depth, ad_read, ad_ret>>
    /\ ad_saved' = [ad_saved EXCEPT ![w] = ok]
    /\ UNCHANGED ad_source
    /\ UNCHANGED ad_exception
    /\ ad_writes' = [ad_writes EXCEPT ![w] = Append(ad_writes[w], "store")]
    /\ UNCHANGED <<ad_resp, ad_expected>>

\* Every future is done: future.result() re-raises a thread's exception and
\* ends the run; otherwise sleep, then the next batch.
AdBatchDone ==
    /\ ad_main = "wait"
    /\ AdAllDone
    /\ ad_main' = IF ad_exception THEN "crashed" ELSE "select"
    /\ UNCHANGED <<ad_api_keys, ad_key_index, ad_redis, ad_table, ad_queue,
                   ad_pc, ad_question, ad_answer, ad_depth, ad_read, ad_ret,
                   ad_source, ad_saved>>
    /\ UNCHANGED ad_exception
    /\ UNCHANGED <<ad_resp, ad_expected, ad_writes>>

AdIdle ==
    /\ ad_api_keys = <<1>>
    /\ ad_key_index = 0
    /\ ad_redis = [t \in AdQuestionTexts |-> None]
    /\ ad_table = <<>>
    /\ ad_main = "end"
    /\ ad_queue = <<>>
    /\ ad_exception = FALSE
    /\ ad_pc = [w \in Workers |-> "idle"]
    /\ ad_question = [w \in Workers |-> None]
    /\ ad_answer = [w \in Workers |-> None]
    /\ ad_depth = [w \in Workers |-> 0]
    /\ ad_read = [w \in Workers |-> 0]
    /\ ad_ret = [w \in Workers |-> 0]
    /\ ad_source = [w \in Workers |-> "none"]
    /\ ad_saved = [w \in Workers |-> FALSE]
    /\ ad_resp = [w \in Workers |-> "none"]
    /\ ad_expected = 0
    /\ ad_writes = [w \in Workers |-> <<>>]

\* The rows the table may hold when _update_missing_llm_answers starts.
AdInitialRows ==
    [question_text : AdQuestionTexts, human_answer : {HumanAnswer},
     llm_answer : {<<>>, OldAnswer}]

\* LLMClient.__init__ of adsad, and run() up to _update_missing_llm_answers.
InitAd ==
    /\ ad_api_keys \in {[i \in 1..n |-> i] : n \in 1..MaxAdKeys}
    /\ ad_key_index = 0
    /\ ad_redis = [t \in AdQuestionTexts |-> None]
    /\ ad_table \in [1..MaxAdRows -> AdInitialRows]
    /\ ad_main = "select"
    /\ ad_queue = <<>>
    /\ ad_exception = FALSE
    /\ ad_pc = [w \in Workers |-> "idle"]
    /\ ad_question = [w \in Workers |-> None]
    /\ ad_answer = [w \in Workers |-> None]
    /\ ad_depth = [w \in Workers |-> 0]
    /\ ad_read = [w \in Workers |-> 0]
    /\ ad_ret = [w \in Workers |-> 0]
    /\ ad_source = [w \in Workers |-> "none"]
    /\ ad_saved = [w \in Workers |-> FALSE]
    /\ ad_resp = [w \in Workers |-> "none"]
    /\ ad_expected = 0
    /\ ad_writes = [w \in Workers |-> <<>>]

\* The same start with any content of the cache: Redis outlives the
\* process, and an earlier run may have left an answer for any question.
InitAdAnyCache ==
    /\ ad_api_keys \in {[i \in 1..n |-> i] : n \in 1..MaxAdKeys}
    /\ ad_key_index = 0
    /\ ad_redis \in [AdQuestionTexts -> {None, OldAnswer}]
    /\ ad_table \in [1..MaxAdRows -> AdInitialRows]
    /\ ad_main = "select"
    /\ ad_queue = <<>>
    /\ ad_exception = FALSE
    /\ ad_pc = [w \in Workers |-> "idle"]
    /\ ad_question = [w \in Workers |-> None]
    /\ ad_answer = [w \in Workers |-> None]
    /\ ad_depth = [w \in Workers |-> 0]
    /\ ad_read = [w \in Workers |-> 0]
    /\ ad_ret = [w \in Workers |-> 0]
    /\ ad_source = [w \in Workers |-> "none"]
    /\ ad_saved = [w \in Workers |-> FALSE]
    /\ ad_resp = [w \in Workers |-> "none"]
    /\ ad_expected = 0
    /\ ad_writes = [w \in Workers |-> <<>>]


(***************************************************************************)
(* The access counts of the cache, for the LFU policy                      *)
(***************************************************************************)
MaxCount == 2          \* gets and sets of one resident key that are counted

LfuIdle == cm_count = [k \in CKeys |-> 0]

\* The position of key k in a sequence of keys that holds it.
IndexOf(keys, k) == CHOOSE i \in DOMAIN keys : keys[i] = k

\* The access counts after a CacheManager call on key k (NoVal: a step of
\* Redis itself): a key that is not resident has none, a key that set has
\* just created has one, a get that found k or a set that overwrote it adds
\* one.  A resident key is accessed at most MaxCount times.
LfuCounted(k) ==
    /\ k \in CKeys => cm_count[k] < MaxCount
    /\ cm_count' =
          [x \in CKeys |->
              IF cm_redis'[x] = None THEN 0
              ELSE IF x # k THEN cm_count[x]
              ELSE IF cm_last'.op = "set" /\ cm_last'.result = "False" THEN cm_count[x]
              ELSE IF cm_last'.op = "set" /\ cm_last'.evicted = x THEN 1
              ELSE cm_count[x] + 1]

\* CacheManager.__init__ with CACHE_POLICY=LFU on an empty Redis.
InitCacheLfu ==
    /\ InitCache
    /\ cache_policy = "LFU"
    /\ LfuIdle


(***************************************************************************)
(* Start-up: LLMClient.__init__ of src/LLM_Client/app.py and of            *)
(* src/prueba/adsad.py, up to the call that starts the batch work          *)
(***************************************************************************)
NumEnvKeys == 5        \* GEMINI_API_KEY1 .. GEMINI_API_KEY5
ConnectAttempts == 5   \* _connect_to_db: for attempt in range(5)

\* LLM_Client: "k for k in raw_keys if k and k.strip()".
KeyConfigured(k) == Truthy(k) /\ Strip(k) # <<>>

\* adsad: "k.strip() for k in ....split(',') if k.strip()".
PieceConfigured(k) == Strip(k) # <<>>

\* self.api_keys as each program computes it from the environment.
LoadKeys(prog, env) ==
    IF prog = "LLM_Client"
    THEN SelectSeq(env, KeyConfigured)
    ELSE LET kept == SelectSeq(env, PieceConfigured)
         IN  [i \in 1..Len(kept) |-> Strip(kept[i])]

\* A mutant of __init__: the test for an empty credential list is gone.
KeysMissingNever(keys) == FALSE

\* "if not self.api_keys" / "if not API_KEYS"
KeysMissing(keys) == keys = <<>>

\* The connection attempts __init__ makes at most: _connect_to_db loops
\* ConnectAttempts times; adsad's SimpleConnectionPool(1, 10, ...) opens its
\* one minimum connection once.
ConnectTries(prog) == IF prog = "LLM_Client" THEN ConnectAttempts ELSE 1

\* __init__: the credentials are loaded; with none of them, ValueError.
StLoadKeys ==
    /\ st_pc = "init"
    /\ st_keys' = LoadKeys(st_prog, st_env)
    /\ st_pc' = IF KeysMissing(LoadKeys(st_prog, st_env)) THEN "raised" ELSE "redis"
    /\ UNCHANGED <<st_prog, st_env, st_attempt, st_conn, st_touched>>

\* __init__: self.redis_client = redis.Redis(...)
StRedis ==
    /\ st_pc = "redis"
    /\ st_touched' = st_touched \cup {"cache"}
    /\ st_pc' = "connect"
    /\ UNCHANGED <<st_prog, st_env, st_keys, st_attempt, st_conn>>

\* One psycopg2.connect: the connection, or a failure that is logged and
\* slept on while attempts are left.
StConnect(ok) ==
    /\ st_pc = "connect"
    /\ st_attempt < ConnectTries(st_prog)
    /\ st_attempt' = st_attempt + 1
    /\ st_touched' = st_touched \cup {"store"}
    /\ st_conn' = ok
    /\ st_pc' = IF ok THEN "ready" ELSE "connect"
    /\ UNCHANGED <<st_prog, st_env, st_keys>>

\* No attempt is left: "raise Exception('No se pudo conectar a la base de
\* datos')", or the pool's own error in adsad.
StGiveUp ==
    /\ st_pc = "connect"
    /\ st_attempt >= ConnectTries(st_prog)
    /\ st_pc' = "raised"
    /\ UNCHANGED <<st_prog, st_env, st_keys, st_attempt, st_conn, st_touched>>

\* main: client.run_batches(...) / client.run(): the batch work begins.
StRun ==
    /\ st_pc = "ready"
    /\ st_pc' = "running"
    /\ UNCHANGED <<st_prog, st_env, st_keys, st_attempt, st_conn, st_touched>>

StIdle ==
    /\ st_prog = "LLM_Client"
    /\ st_env = <<>>
    /\ st_keys = <<>>
    /\ st_pc = "running"
    /\ st_attempt = 0
    /\ st_conn = TRUE
    /\ st_touched = {}

\* The process starts: any environment, nothing created yet.  os.getenv
\* gives, for each GEMINI_API_KEYn, nothing, an empty or blank string or a
\* key; OPENROUTER_API_KEY.split(",") gives pieces that are empty, blank or
\* a key with a space after it.
InitStart ==
    /\ st_prog \in {"LLM_Client", "adsad"}
    /\ st_env \in IF st_prog = "LLM_Client"
                  THEN [1..NumEnvKeys -> {None, <<>>, <<" ">>, <<"k">>}]
                  ELSE UNION {[1..n -> {<<>>, <<" ">>, <<"k", " ">>}] : n \in 1..MaxAdKeys}
    /\ st_keys = <<>>
    /\ st_pc = "init"
    /\ st_attempt = 0
    /\ st_conn = FALSE
    /\ st_touched = {}


(***************************************************************************)
(* ingresar.upsert_questions (src/Generador_Trafico/ingresar.py)           *)
(***************************************************************************)
MaxUpIds == 2          \* ids the table may hold when the call is made
MaxItems == 2          \* items of one data argument

NullNum == -1          \* NULL in a numeric or timestamp column

\* A row of table questions (and the entry of an item, which has the same
\* fields): e holds the four scores and evaluated_at.
UpRow(qt, ha, llm, e, created) ==
    [question_text |-> qt, human_answer |-> ha, llm_answer |-> llm,
     similarity_score |-> e[1], quality_score |-> e[2],
     completeness_score |-> e[3], overall_score |-> e[4],
     created_at |-> created, evaluated_at |-> e[5]]

NoScores == <<NullNum, NullNum, NullNum, NullNum, NullNum>>
NewScores == <<6, 7, 8, 9, 10>>

\* The rows the table may hold before the call: question_text and
\* human_answer are NOT NULL columns, '' is a value they may have.
UpExistingRows ==
    {UpRow(qt, ha, b[1], b[2], 1) :
        qt \in {<<>>, Q1}, ha \in {<<>>, HumanAnswer},
        b \in {<<None, NoScores>>, <<OldAnswer, <<1, 2, 3, 4, 5>>>>}}

\* The entries the JSON file may hold; entry.get gives None for a field
\* that is missing.
UpEntries ==
    {UpRow(qt, ha, b[1], b[2], 2) :
        qt \in {None, Q2}, ha \in {None, <<>>, <<"g">>},
        b \in {<<None, NoScores>>, <<<<"n">>, NewScores>>}}

\* int(item["key"]) of a decimal string
RECURSIVE ParseInt(_)
ParseInt(t) ==
    IF t = <<>> THEN 0
    ELSE 10 * ParseInt(SubSeq(t, 1, Len(t) - 1))
         + (CASE t[Len(t)] = "0" -> 0 [] t[Len(t)] = "1" -> 1 [] t[Len(t)] = "2" -> 2)

\* The data arguments: one to MaxItems items, their keys decimal strings,
\* with different ids.
UpData ==
    {d \in UNION {[1..n -> [key : {<<"1">>, <<"2">>, <<"0", "2">>}, entry : UpEntries]] :
                     n \in 1..MaxItems} :
        \A i, j \in DOMAIN d : ParseInt(d[i].key) = ParseInt(d[j].key) => i = j}

\* The tables before the call: any set of ids, any rows.
UpInitialTables == UNION {[S -> UpExistingRows] : S \in SUBSET (1..MaxUpIds)}

\* A mutant of the CASE of DO UPDATE: only NULL lets the new value in.
KeepUnlessNull(old, new) == IF old = None THEN new ELSE old

\* CASE WHEN questions.c IS NULL OR questions.c = '' THEN EXCLUDED.c
\* ELSE questions.c END
KeepUnlessEmpty(old, new) == IF old = None \/ old = <<>> THEN new ELSE old

\* ON CONFLICT (id) DO UPDATE SET ...: the row after the update; created_at
\* is not in the SET list.
ConflictUpdate(old, ex) ==
    [old EXCEPT !.llm_answer = ex.llm_answer,
                !.similarity_score = ex.similarity_score,
                !.quality_score = ex.quality_score,
                !.completeness_score = ex.completeness_score,
                !.overall_score = ex.overall_score,
                !.evaluated_at = ex.evaluated_at,
                !.question_text = KeepUnlessEmpty(old.question_text, ex.question_text),
                !.human_answer = KeepUnlessEmpty(old.human_answer, ex.human_answer)]

\* INSERT ... VALUES (one record) ON CONFLICT (id) DO UPDATE
UpsertOne(table, id, ex) ==
    IF id \in DOMAIN table
    THEN [table EXCEPT ![id] = ConflictUpdate(table[id], ex)]
    ELSE [i \in DOMAIN table \cup {id} |-> IF i = id THEN ex ELSE table[i]]

\* execute_values(cur, query, records): the records in their order.
RECURSIVE UpsertAll(_, _)
UpsertAll(table, data) ==
    IF data = <<>> THEN table
    ELSE UpsertAll(UpsertOne(table, ParseInt(Head(data).key), Head(data).entry),
                   Tail(data))

\* A record has NULL for a NOT NULL column: PostgreSQL checks the row
\* proposed for insertion before it looks for a conflict.
NotNullViolated(data) ==
    \E n \in DOMAIN data :
        data[n].entry.question_text = None \/ data[n].entry.human_answer = None

\* upsert_questions(data): one statement (autocommit); when it violates a
\* constraint it raises and changes nothing.
UpsertQuestions(data) ==
    /\ up_data = <<>>
    /\ up_before' = up_table
    /\ up_data' = data
    /\ up_error' = NotNullViolated(data)
    /\ up_table' = IF NotNullViolated(data) THEN up_table ELSE UpsertAll(up_table, data)

UpIdle ==
    /\ up_table = <<>>
    /\ up_before = <<>>
    /\ up_data = <<>>
    /\ up_error = FALSE

InitUpsert ==
    /\ up_table \in UpInitialTables
    /\ up_before = up_table
    /\ up_data = <<>>
    /\ up_error = FALSE


(***************************************************************************)
(* TrafficGenerator.simulate_traffic (src/Generador_Trafico/app.py) with   *)
(* the /evaluate endpoint of src/prueba/app.py that get_from_api posts to  *)
(***************************************************************************)
MaxQid == 2            \* start_id..end_id is 1..MaxQid
NumQueries == 3        \* num_queries

\* One turn of "for i in range(num_queries)" for the sampled qid.  A cache
\* hit is counted and nothing is written.  On a miss get_from_db's row,
\* when there is one, is cached; else get_from_api posts to /evaluate,
\* which answers 404 when no row has the id (inserted: another program has
\* inserted it since the SELECT of get_from_db) and 500 when call_grok
\* raises, and get_from_api returns None; else the endpoint updates the
\* row, and the evaluation it returns is cached.
TgQuery(qid, inserted, grok_ok) ==
    /\ tg_i < NumQueries
    /\ tg_i' = tg_i + 1
    /\ IF tg_redis[qid] # NoVal
       THEN /\ tg_hits' = tg_hits + 1
            /\ tg_data' = "cache"
            /\ tg_writes' = <<>>
            /\ UNCHANGED <<tg_misses, tg_redis, tg_rows>>
       ELSE /\ tg_misses' = tg_misses + 1
            /\ UNCHANGED tg_hits
            /\ IF tg_rows[qid]
               THEN /\ tg_data' = "database"
                    /\ tg_redis' = [tg_redis EXCEPT ![qid] = "row"]
                    /\ tg_writes' = <<"cache">>
                    /\ UNCHANGED tg_rows
               ELSE /\ tg_rows' = [tg_rows EXCEPT ![qid] = inserted]
                    /\ IF inserted /\ grok_ok
                       THEN /\ tg_data' = "api"
                            /\ tg_redis' = [tg_redis EXCEPT ![qid] = "evaluation"]
                            /\ tg_writes' = <<"store", "cache">>
                       ELSE /\ tg_data' = "none"
                            /\ tg_writes' = <<>>
                            /\ UNCHANGED tg_redis

\* Redis evicts a key under its maxmemory-policy.
TgEvicted(qid) ==
    /\ tg_redis[qid] # NoVal
    /\ tg_redis' = [tg_redis EXCEPT ![qid] = NoVal]
    /\ UNCHANGED <<tg_rows, tg_i, tg_hits, tg_misses, tg_data, tg_writes>>

TgIdle ==
    /\ tg_redis = [i \in 1..MaxQid |-> NoVal]
    /\ tg_rows = [i \in 1..MaxQid |-> FALSE]
    /\ tg_i = 0
    /\ tg_hits = 0
    /\ tg_misses = 0
    /\ tg_data = "none"
    /\ tg_writes = <<>>

\* TrafficGenerator.__init__ (flushdb) and the head of simulate_traffic.
InitTraffic ==
    /\ tg_redis = [i \in 1..MaxQid |-> NoVal]
    /\ tg_rows \in [1..MaxQid -> BOOLEAN]
    /\ tg_i = 0
    /\ tg_hits = 0
    /\ tg_misses = 0
    /\ tg_data = "none"
    /\ tg_writes = <<>>

(***************************************************************************)
(* reprocess_fails and the stream ds of                                    *)
(* src/FlinkReprocessor/Reprocessor_Flink.py                               *)
(***************************************************************************)
MAX_RETRIES == 3
MaxMsgs == 2           \* messages on the topic respuestas_fallidas at the start
MaxRetriesIn == 4      \* the largest "retries" a message arrives with

\* dict.get(key, default)
DictGet(data, key, default) == IF key \in DOMAIN data THEN data[key] ELSE default

\* data[key] = value
DictSet(data, key, value) ==
    [x \in DOMAIN data \cup {key} |-> IF x = key THEN value ELSE data[x]]

\* A mutant of reprocess_fails: a message is retried while retries <= 3.
RetryAllowedInclusive(retries) == retries <= MAX_RETRIES

\* reprocess_fails: "if retries < MAX_RETRIES"
RetryAllowed(retries) == retries < MAX_RETRIES

\* What reprocess_fails returns for a message it drops (None), which the
\* filter of ds keeps from the sink.
NoMessage == [dropped |-> TRUE]

\* reprocess_fails(value): the message to emit, or None.  A message is the
\* JSON object json.loads gives, and json.dumps writes the object back with
\* the same fields; both prints read data["id"].
ReprocessFails(data) ==
    IF RetryAllowed(DictGet(data, "retries", 0))
    THEN DictSet(data, "retries", DictGet(data, "retries", 0) + 1)
    ELSE NoMessage

\* The messages a failed answer is published with: the id of the question
\* and, when the message has been through reprocess_fails, its retries.
FailedMessages ==
    {[id |-> i] : i \in 1..MaxMsgs}
    \cup {[id |-> i, retries |-> r] : i \in 1..MaxMsgs, r \in 0..MaxRetriesIn}

\* ds.map(reprocess_fails).filter(v is not None).sink_to(sink) on the next
\* record of respuestas_fallidas.
FlReprocess ==
    /\ fl_failed # <<>>
    /\ fl_failed' = Tail(fl_failed)
    /\ fl_last' = [value |-> Head(fl_failed), out |-> ReprocessFails(Head(fl_failed))]
    /\ IF ReprocessFails(Head(fl_failed)) # NoMessage
       THEN /\ fl_questions' = Append(fl_questions, ReprocessFails(Head(fl_failed)))
            /\ fl_emits' = [fl_emits EXCEPT ![Head(fl_failed).id] = @ + 1]
       ELSE UNCHANGED <<fl_questions, fl_emits>>

\* The consumer of the topic preguntas takes the next message; when the
\* answer fails again it publishes the message, as it is, to
\* respuestas_fallidas.
FlConsumed(fails) ==
    /\ fl_questions # <<>>
    /\ fl_questions' = Tail(fl_questions)
    /\ fl_failed' = IF fails THEN Append(fl_failed, Head(fl_questions)) ELSE fl_failed
    /\ UNCHANGED <<fl_last, fl_emits>>

FlIdle ==
    /\ fl_failed = <<>>
    /\ fl_questions = <<>>
    /\ fl_last = [value |-> NoMessage, out |-> NoMessage]
    /\ fl_emits = [i \in 1..MaxMsgs |-> 0]

\* The job starts on a topic that holds the failed answers of up to MaxMsgs
\* questions, one message each.
InitFlink ==
    /\ fl_failed \in {s \in UNION {[1..n -> FailedMessages] : n \in 1..MaxMsgs} :
                         \A i, j \in DOMAIN s : s[i].id = s[j].id => i = j}
    /\ fl_questions = <<>>
    /\ fl_last = [value |-> NoMessage, out |-> NoMessage]
    /\ fl_emits = [i \in 1..MaxMsgs |-> 0]

(***************************************************************************)
(* evaluate_question, the /evaluate endpoint of src/prueba/app.py          *)
(***************************************************************************)
MaxEvIds == 2          \* ids a request may name

\* The rows of table questions as the endpoint sees them: the row of an id
\* exists or not, and holds llm_answer and the four scores with
\* evaluated_at ("null": not evaluated, "old": an earlier evaluation,
\* "new": the scores of this scorer call, "zero": the scorer's fallback).
EvNoRow == [present |-> FALSE, llm_answer |-> None, scores |-> "null"]

EvRows ==
    {EvNoRow}
    \cup {[present |-> TRUE, llm_answer |-> a, scores |-> sc] :
             a \in {None, OldAnswer}, sc \in {"null", "old"}}

\* call_grok(question_text) when it returns.
GrokAnswer == <<"n">>

\* The status FastAPI answers with: the HTTPException raised in the handler
\* or made of a caught OperationalError or RuntimeError; any other
\* exception is an internal server error.
EvStatus(exc) ==
    CASE exc = "none" -> 200
      [] exc = "not_found" -> 404
      [] OTHER -> 500

\* A mutant of evaluate_question: the finally clause does not close conn.
EvFinallyLeak(conn) == conn

\* evaluate_question: "finally: if 'conn' in locals(): conn.close()"
EvFinally(conn) == IF conn = "open" THEN "closed" ELSE conn

\* evaluate_question for req.id = id.  conn_ok: psycopg2.connect returns;
\* generated: the call_grok that writes the answer returns; scored: the
\* call_grok of evaluate_response returns JSON scores (evaluate_response
\* catches what it raises and gives zeros); upd_ok: the UPDATE and the
\* commit go through.  A connection closed without commit has its
\* transaction rolled back.
EvaluateQuestion(id, conn_ok, generated, scored, upd_ok) ==
    LET exc == IF ~conn_ok THEN "OperationalError"
               ELSE IF ~ev_table[id].present THEN "not_found"
               ELSE IF ~generated THEN "RuntimeError"
               ELSE IF ~upd_ok THEN "OperationalError"
               ELSE "none"
    IN  /\ ev_before' = ev_table
        /\ ev_req' = [id |-> id, connected |-> conn_ok,
                      generated |-> conn_ok /\ ev_table[id].present /\ generated,
                      exc |-> exc]
        /\ ev_status' = EvStatus(exc)
        /\ ev_conn' = EvFinally(IF conn_ok THEN "open" ELSE "none")
        /\ ev_table' =
              IF exc = "none"
              THEN [ev_table EXCEPT ![id] =
                       [present |-> TRUE, llm_answer |-> GrokAnswer,
                        scores |-> IF scored THEN "new" ELSE "zero"]]
              ELSE ev_table

EvIdle ==
    /\ ev_table = [i \in 1..MaxEvIds |-> EvNoRow]
    /\ ev_conn = "none"
    /\ ev_status = 0
    /\ ev_req = [id |-> 0, connected |-> FALSE, generated |-> FALSE, exc |-> "none"]
    /\ ev_before = [i \in 1..MaxEvIds |-> EvNoRow]

\* The service is up on any table.
InitEvaluate ==
    /\ ev_table \in [1..MaxEvIds -> EvRows]
    /\ ev_conn = "none"
    /\ ev_status = 0
    /\ ev_req = [id |-> 0, connected |-> FALSE, generated |-> FALSE, exc |-> "none"]
    /\ ev_before = ev_table


(***************************************************************************)
(* The store pool of src/prueba/adsad.py: _get_conn and _put_conn in       *)
(* _save_to_db and _update_missing_llm_answers.  getconn and putconn are   *)
(* single steps of the pool.                                               *)
(***************************************************************************)
PoolMaxConn == 10

\* The main thread and the pool threads.
PlThreads == {0} \cup Workers

\* self.pool.getconn(): a connection that is not checked out.
PoolGetConn(used) ==
    CHOOSE c \in 1..PoolMaxConn : c \notin used /\ \A d \in 1..(c - 1) : d \in used

\* conn = self._get_conn() by thread t; PoolError when every connection
\* is checked out.
PlGetConn(t) ==
    /\ Cardinality(pl_used) < PoolMaxConn
    /\ pl_used' = pl_used \cup {PoolGetConn(pl_used)}
    /\ pl_conn' = [pl_conn EXCEPT ![t] = PoolGetConn(pl_used)]
    /\ pl_puts' = [pl_puts EXCEPT ![t] = 0]

\* self._put_conn(conn) by thread t
PlPutConn(t) ==
    /\ pl_used' = pl_used \ {pl_conn[t]}
    /\ pl_puts' = [pl_puts EXCEPT ![t] = @ + 1]
    /\ UNCHANGED pl_conn

\* A mutant of _save_to_db: what conn.rollback() raises is not caught.
AfterRollbackEscapes(ok) == IF ok THEN "finally" ELSE "idle"

\* _save_to_db: after conn.rollback(), whether it raised or not ("except:
\* pass"), the finally clause runs.
AfterRollback(ok) == "finally"

\* _update_missing_llm_answers: conn = self._get_conn()
PlMainGet ==
    /\ pl_main = "loop"
    /\ PlGetConn(0)
    /\ pl_main' = "select"
    /\ UNCHANGED <<pl_pc, pl_path>>

\* The SELECT of the batch: it gives questions, gives none, or raises.
PlMainSelect(outcome) ==
    /\ pl_main = "select"
    /\ pl_main' = outcome
    /\ UNCHANGED <<pl_used, pl_pc, pl_conn, pl_puts, pl_path>>

\* "finally: self._put_conn(conn)", then the break, the executor or the
\* exception of the SELECT.
PlMainPut ==
    /\ pl_main \in {"questions", "no_questions", "select_raised"}
    /\ PlPutConn(0)
    /\ pl_main' = CASE pl_main = "questions" -> "executor"
                     [] pl_main = "no_questions" -> "end"
                     [] OTHER -> "raised"
    /\ UNCHANGED <<pl_pc, pl_path>>

\* A pool thread enters _save_to_db: conn = self._get_conn()
PlSaveGet(w) ==
    /\ pl_main = "executor"
    /\ pl_pc[w] = "idle"
    /\ PlGetConn(w)
    /\ pl_pc' = [pl_pc EXCEPT ![w] = "try"]
    /\ pl_path' = [pl_path EXCEPT ![w] = "none"]
    /\ UNCHANGED pl_main

\* The body of the try: the statements, the commit and _save_local_json go
\* through, or one of them raises.
PlSaveBody(w, ok) ==
    /\ pl_pc[w] = "try"
    /\ pl_pc' = [pl_pc EXCEPT ![w] = IF ok THEN "finally" ELSE "except"]
    /\ pl_path' = [pl_path EXCEPT ![w] = IF ok THEN "success" ELSE "sql_error"]
    /\ UNCHANGED <<pl_used, pl_main, pl_conn, pl_puts>>

\* "except Exception": conn.rollback(), which may raise.
PlSaveRollback(w, ok) ==
    /\ pl_pc[w] = "except"
    /\ pl_pc' = [pl_pc EXCEPT ![w] = AfterRollback(ok)]
    /\ pl_path' = [pl_path EXCEPT ![w] = IF ok THEN "sql_error" ELSE "failed_rollback"]
    /\ UNCHANGED <<pl_used, pl_main, pl_conn, pl_puts>>

\* "finally: self._put_conn(conn)", and _save_to_db returns.
PlSavePut(w) ==
    /\ pl_pc[w] = "finally"
    /\ PlPutConn(w)
    /\ pl_pc' = [pl_pc EXCEPT ![w] = "idle"]
    /\ UNCHANGED <<pl_main, pl_path>>

\* The executor's with-block ends when its threads are done; the sleep and
\* the next turn of "while True".
PlBatchDone ==
    /\ pl_main = "executor"
    /\ \A w \in Workers : pl_pc[w] = "idle"
    /\ pl_main' = "loop"
    /\ UNCHANGED <<pl_used, pl_pc, pl_conn, pl_puts, pl_path>>

PlIdle ==
    /\ pl_used = {}
    /\ pl_main = "end"
    /\ pl_pc = [w \in Workers |-> "idle"]
    /\ pl_conn = [t \in PlThreads |-> 0]
    /\ pl_puts = [t \in PlThreads |-> 0]
    /\ pl_path = [w \in Workers |-> "none"]

\* LLMClient.__init__ has made the pool; _update_missing_llm_answers starts.
InitPool ==
    /\ pl_used = {}
    /\ pl_main = "loop"
    /\ pl_pc = [w \in Workers |-> "idle"]
    /\ pl_conn = [t \in PlThreads |-> 0]
    /\ pl_puts = [t \in PlThreads |-> 0]
    /\ pl_path = [w \in Workers |-> "none"]


(***************************************************************************)
(* export_db_to_json of src/LLM_Client/app.py, as run_batches calls it     *)
(* after each batch                                                        *)
(***************************************************************************)
MaxExRows == 2         \* rows of table questions

\* What the table may hold: per id, llm_answer.
ExTables == [1..MaxExRows -> {None, OldAnswer}]

\* The backup file: it does not exist, it exists and json.load raises
\* (or it cannot be opened), or it holds the JSON list of an export.
ExNoFile == [state |-> "absent", data |-> <<>>]
ExCorrupt == [state |-> "corrupt", data |-> <<>>]
ExJson(table) == [state |-> "json", data |-> table]

\* A mutant of export_db_to_json: the file is exported again every time.
ExReadableNever(file) == FALSE

\* export_db_to_json: os.path.exists(file_path) and json.load(f) returns.
ExReadable(file) == file.state = "json"

\* export_db_to_json(file_path).  query_ok: the SELECT goes through;
\* write: open(file_path, "w") and json.dump go through ("done"), open
\* raises ("no_open"), or the dump raises after open has truncated the
\* file ("partial").  Every exception is logged and swallowed.
ExportDbToJson(query_ok, write) ==
    /\ ex_last' = [called |-> TRUE, before |-> ex_file, table |-> ex_table,
                   queries |-> IF ExReadable(ex_file) THEN 0 ELSE 1]
    /\ ex_file' = IF ExReadable(ex_file) \/ ~query_ok \/ write = "no_open" THEN ex_file
                  ELSE IF write = "partial" THEN ExCorrupt
                  ELSE ExJson(ex_table)
    /\ UNCHANGED ex_table

\* run_batches stores an answer between two exports.
ExAnswerStored(id) ==
    /\ ex_table[id] = None
    /\ ex_table' = [ex_table EXCEPT ![id] = OldAnswer]
    /\ UNCHANGED <<ex_file, ex_last>>

ExIdle ==
    /\ ex_file = ExNoFile
    /\ ex_table = [i \in 1..MaxExRows |-> None]
    /\ ex_last = [called |-> FALSE, before |-> ExNoFile, table |-> ex_table, queries |-> 0]

\* run_batches starts: the file is absent, unreadable, or the export of an
\* earlier run.
InitExport ==
    /\ ex_table \in ExTables
    /\ ex_file \in {ExNoFile, ExCorrupt} \cup {ExJson(t) : t \in ExTables}
    /\ ex_last = [called |-> FALSE, before |-> ExNoFile, table |-> ex_table, queries |-> 0]


(***************************************************************************)
(* The values of the cache                                                 *)
(***************************************************************************)
RtIdle == cm_value = [k \in CKeys |-> PyNone]

\* The value each resident key was last set to, after a CacheManager call
\* with key k and value v: a key that is not resident has none, and a set
\* that returned True has given k the value v.
RtTracked(k, v) ==
    cm_value' =
        [x \in CKeys |->
            IF cm_redis'[x] = None THEN PyNone
            ELSE IF x = k /\ cm_last'.op = "set" /\ cm_last'.result = "True" THEN v
            ELSE cm_value[x]]

\* CacheManager.__init__ on an empty Redis.
InitCacheRound == InitCache /\ RtIdle


(***************************************************************************)
(* The specifications: one per program.  The variables of the other        *)
(* programs keep their initial value.                                      *)
(***************************************************************************)
CacheFrame == UNCHANGED <<llmVars, grokVars, adVars, lfuVars, stVars, upVars, tgVars, moreVars>>
LlmFrame == UNCHANGED <<cmVars, grokVars, adVars, lfuVars, stVars, upVars, tgVars, moreVars>>
AdFrame == UNCHANGED <<cmVars, llmVars, grokVars, lfuVars, stVars, upVars, tgVars, moreVars>>
LfuFrame == UNCHANGED <<llmVars, grokVars, adVars, stVars, upVars, tgVars, moreVars>>
StFrame == UNCHANGED <<cmVars, llmVars, grokVars, adVars, lfuVars, upVars, tgVars, moreVars>>
UpFrame == UNCHANGED <<cmVars, llmVars, grokVars, adVars, lfuVars, stVars, tgVars, moreVars>>
TgFrame == UNCHANGED <<cmVars, llmVars, grokVars, adVars, lfuVars, stVars, upVars, moreVars>>
OldVars == <<cmVars, llmVars, grokVars, adVars, lfuVars, stVars, upVars, tgVars>>
FlFrame == UNCHANGED <<OldVars, rtVars, gmVars, evVars, plVars, exVars>>
EvFrame == UNCHANGED <<OldVars, flVars, rtVars, gmVars, plVars, exVars>>
PlFrame == UNCHANGED <<OldVars, flVars, rtVars, gmVars, evVars, exVars>>
ExFrame == UNCHANGED <<OldVars, flVars, rtVars, gmVars, evVars, plVars>>
RtFrame ==
    UNCHANGED <<llmVars, grokVars, adVars, lfuVars, stVars, upVars, tgVars, flVars, gmVars,
                evVars, plVars, exVars>>
GmFrame ==
    UNCHANGED <<cmVars, grokVars, adVars, lfuVars, stVars, upVars, tgVars, flVars, rtVars,
                evVars, plVars, exVars>>
GkFrame ==
    UNCHANGED <<cmVars, llmVars, adVars, lfuVars, stVars, upVars, tgVars, flVars, rtVars,
                start_index, last_key, last_status, evVars, plVars, exVars>>

\* The programs that are not the one a specification is about.
MoreIdle == FlIdle /\ RtIdle /\ GmIdle /\ EvIdle /\ PlIdle /\ ExIdle

OldIdle ==
    CmIdle /\ LlmIdle /\ GrokIdle /\ AdIdle /\ LfuIdle /\ StIdle /\ UpIdle /\ TgIdle

RestIdle == LfuIdle /\ StIdle /\ UpIdle /\ TgIdle /\ MoreIdle

\* CacheManager under any sequence of its calls.
InitCacheOnly == InitCache /\ LlmIdle /\ GrokIdle /\ AdIdle /\ RestIdle

NextCache ==
    \/ \E k \in CKeys, v \in CValues, f \in {"none", "evict", "setex"} :
          CacheSet(k, v, f) /\ CacheFrame
    \/ \E k \in CKeys : CacheGet(k) /\ CacheFrame
    \/ \E k \in CKeys : CacheExpire(k) /\ CacheFrame
    \/ CacheTick /\ CacheFrame

SpecCache == InitCacheOnly /\ [][NextCache]_vars

\* CacheManager.set on a Redis database that another client writes too.
InitCacheShared == InitCache /\ LlmIdle /\ GrokIdle /\ AdIdle /\ RestIdle

NextCacheShared ==
    \/ \E k \in CKeys, v \in CValues, f \in {"none", "evict", "setex"} :
          CacheSet(k, v, f) /\ CacheFrame
    \/ \E k \in CKeys : CacheExpire(k) /\ CacheFrame
    \/ \E k \in CKeys, v \in CValues : OtherClientSetex(k, v) /\ CacheFrame

SpecCacheShared == InitCacheShared /\ [][NextCacheShared]_vars

\* LLMClient.run_batches of src/LLM_Client/app.py.
Init == InitLlm /\ CmIdle /\ GrokIdle /\ AdIdle /\ RestIdle

Next ==
    \/ FetchBatch /\ LlmFrame
    \/ NextQuestion /\ LlmFrame
    \/ \E ok \in BOOLEAN : CacheLookup(ok) /\ LlmFrame
    \/ \E ok \in BOOLEAN : DbLookup(ok) /\ LlmFrame
    \/ \E r \in GeminiResponses : GeminiAttempt(r) /\ LlmFrame
    \/ GeminiGiveUp /\ LlmFrame
    \/ \E ok \in BOOLEAN : SaveAnswer(ok) /\ LlmFrame
    \/ \E ok \in BOOLEAN : WriteCache(ok) /\ LlmFrame
    \/ CountResult /\ LlmFrame
    \/ ExportAndWait /\ LlmFrame
    \/ \E k \in CacheKeys : ExpireAnswer(k) /\ LlmFrame

Spec == Init /\ [][Next]_vars

\* call_grok of src/prueba/app.py, called again and again.
InitGrokOnly == InitGrok /\ CmIdle /\ LlmIdle /\ AdIdle /\ RestIdle

NextGrok ==
    \/ GrokStart /\ slept' = FALSE /\ GkFrame
    \/ GrokNextKey /\ UNCHANGED slept /\ GkFrame
    \/ \E r \in GrokResponses : GrokPost(r) /\ slept' = FALSE /\ GkFrame
    \/ GrokSleep /\ slept' = TRUE /\ GkFrame

SpecGrok == InitGrokOnly /\ [][NextGrok]_vars

\* get_answer_from_gemini of src/LLM_Client/app.py, called again and again
\* with every max_key_attempts.
InitGeminiOnly == InitGemini /\ CmIdle /\ GrokIdle /\ AdIdle /\ RestIdle

NextGemini ==
    \/ \E question \in QuestionTexts, given \in BOOLEAN, m \in 0..(MaxKeys + 1) :
          GeminiCall(question, given, m) /\ GmStarted /\ GmFrame
    \/ \E r \in GeminiResponses : GeminiAttempt(r) /\ GmTracked(r) /\ GmFrame
    \/ GeminiGiveUp /\ UNCHANGED gmVars /\ GmFrame

SpecGemini == InitGeminiOnly /\ [][NextGemini]_vars

\* _update_missing_llm_answers of src/prueba/adsad.py and its pool threads.
InitAdOnly == InitAd /\ CmIdle /\ LlmIdle /\ GrokIdle /\ RestIdle

NextAd ==
    \/ AdSelect /\ AdFrame
    \/ \E w \in Workers : AdTake(w) /\ AdFrame
    \/ \E w \in Workers, ok \in BOOLEAN : AdCacheGet(w, ok) /\ AdFrame
    \/ \E w \in Workers, r \in AdResponses : AdCallLlm(w, r) /\ AdFrame
    \/ \E w \in Workers : AdRotateRead(w) /\ AdFrame
    \/ \E w \in Workers : AdRotateWrite(w) /\ AdFrame
    \/ \E w \in Workers : AdRotateReturn(w) /\ AdFrame
    \/ \E w \in Workers, ok \in BOOLEAN : AdCacheSet(w, ok) /\ AdFrame
    \/ \E w \in Workers, ok \in BOOLEAN : AdSave(w, ok) /\ AdFrame
    \/ AdBatchDone /\ AdFrame

SpecAdsad == InitAdOnly /\ [][NextAd]_vars

\* _update_missing_llm_answers when nothing fails: Redis and PostgreSQL
\* answer every command and every requests.post returns a list-shaped
\* content.  The main thread and the pool threads are operating-system
\* threads: each of them goes on whenever it can take a step.
InitAdOk == InitAdAnyCache /\ CmIdle /\ LlmIdle /\ GrokIdle /\ RestIdle

AdWorkerOk(w) ==
    \/ AdTake(w) /\ AdFrame
    \/ AdCacheGet(w, TRUE) /\ AdFrame
    \/ \E r \in {x \in AdResponses : AdParses(x)} : AdCallLlm(w, r) /\ AdFrame
    \/ AdCacheSet(w, TRUE) /\ AdFrame
    \/ AdSave(w, TRUE) /\ AdFrame

NextAdOk ==
    \/ AdSelect /\ AdFrame
    \/ \E w \in Workers : AdWorkerOk(w)
    \/ AdBatchDone /\ AdFrame

SpecAdsadOk ==
    /\ InitAdOk
    /\ [][NextAdOk]_vars
    /\ WF_vars(AdSelect /\ AdFrame)
    /\ WF_vars(AdBatchDone /\ AdFrame)
    /\ \A w \in Workers : WF_vars(AdWorkerOk(w))

\* CacheManager with policy LFU under any sequence of its calls, with the
\* access counts of the resident keys.
InitLfuOnly ==
    InitCacheLfu /\ LlmIdle /\ GrokIdle /\ AdIdle /\ StIdle /\ UpIdle /\ TgIdle /\ MoreIdle

NextLfu ==
    \/ \E k \in CKeys, v \in CValues, f \in {"none", "evict", "setex"} :
          CacheSet(k, v, f) /\ LfuCounted(k) /\ LfuFrame
    \/ \E k \in CKeys : CacheGet(k) /\ LfuCounted(k) /\ LfuFrame
    \/ \E k \in CKeys : CacheExpire(k) /\ LfuCounted(NoVal) /\ LfuFrame

SpecCacheLfu == InitLfuOnly /\ [][NextLfu]_vars

\* The start of the two batch programs, from the environment to the call
\* that begins the batch work.
InitStartOnly ==
    /\ InitStart /\ CmIdle /\ LlmIdle /\ GrokIdle /\ AdIdle /\ LfuIdle /\ UpIdle /\ TgIdle
    /\ MoreIdle

NextStart ==
    \/ StLoadKeys /\ StFrame
    \/ StRedis /\ StFrame
    \/ \E ok \in BOOLEAN : StConnect(ok) /\ StFrame
    \/ StGiveUp /\ StFrame
    \/ StRun /\ StFrame

SpecStart == InitStartOnly /\ [][NextStart]_vars

\* One call of ingresar.upsert_questions on any table.
InitUpsertOnly ==
    /\ InitUpsert /\ CmIdle /\ LlmIdle /\ GrokIdle /\ AdIdle /\ LfuIdle /\ StIdle /\ TgIdle
    /\ MoreIdle

NextUpsert ==
    \/ \E data \in UpData : UpsertQuestions(data) /\ UpFrame

SpecUpsert == InitUpsertOnly /\ [][NextUpsert]_vars

\* simulate_traffic of src/Generador_Trafico/app.py.
InitTrafficOnly ==
    /\ InitTraffic /\ CmIdle /\ LlmIdle /\ GrokIdle /\ AdIdle /\ LfuIdle /\ StIdle /\ UpIdle
    /\ MoreIdle

NextTraffic ==
    \/ \E qid \in 1..MaxQid, inserted \in BOOLEAN, grok_ok \in BOOLEAN :
          TgQuery(qid, inserted, grok_ok) /\ TgFrame
    \/ \E qid \in 1..MaxQid : TgEvicted(qid) /\ TgFrame

SpecTraffic == InitTrafficOnly /\ [][NextTraffic]_vars

\* The stream of Reprocessor_Flink.py with the consumer of the topic it
\* writes to.
InitFlinkOnly == InitFlink /\ OldIdle /\ RtIdle /\ GmIdle /\ EvIdle /\ PlIdle /\ ExIdle

NextFlink ==
    \/ FlReprocess /\ FlFrame
    \/ \E fails \in BOOLEAN : FlConsumed(fails) /\ FlFrame

SpecFlink == InitFlinkOnly /\ [][NextFlink]_vars

\* CacheManager under any sequence of set, get and expiry, with values of
\* every kind and the value each key was last set to.
InitRoundOnly ==
    /\ InitCacheRound /\ LlmIdle /\ GrokIdle /\ AdIdle /\ LfuIdle /\ StIdle /\ UpIdle
    /\ TgIdle /\ FlIdle /\ GmIdle /\ EvIdle /\ PlIdle /\ ExIdle

NextRound ==
    \/ \E k \in CKeys, v \in RoundValues, f \in {"none", "evict", "setex"} :
          CacheSet(k, v, f) /\ RtTracked(k, v) /\ RtFrame
    \/ \E k \in CKeys : CacheGet(k) /\ RtTracked(k, PyNone) /\ RtFrame
    \/ \E k \in CKeys : CacheExpire(k) /\ RtTracked(k, PyNone) /\ RtFrame

SpecCacheRound == InitRoundOnly /\ [][NextRound]_vars

\* The /evaluate endpoint under any sequence of requests.
InitEvaluateOnly ==
    InitEvaluate /\ OldIdle /\ FlIdle /\ RtIdle /\ GmIdle /\ PlIdle /\ ExIdle

NextEvaluate ==
    \/ \E id \in 1..MaxEvIds, conn_ok, generated, scored, upd_ok \in BOOLEAN :
          EvaluateQuestion(id, conn_ok, generated, scored, upd_ok) /\ EvFrame

SpecEvaluate == InitEvaluateOnly /\ [][NextEvaluate]_vars

\* The main thread and the pool threads of adsad at the store pool.
InitPoolOnly == InitPool /\ OldIdle /\ FlIdle /\ RtIdle /\ GmIdle /\ EvIdle /\ ExIdle

NextPool ==
    \/ PlMainGet /\ PlFrame
    \/ \E outcome \in {"questions", "no_questions", "select_raised"} :
          PlMainSelect(outcome) /\ PlFrame
    \/ PlMainPut /\ PlFrame
    \/ \E w \in Workers : PlSaveGet(w) /\ PlFrame
    \/ \E w \in Workers, ok \in BOOLEAN : PlSaveBody(w, ok) /\ PlFrame
    \/ \E w \in Workers, ok \in BOOLEAN : PlSaveRollback(w, ok) /\ PlFrame
    \/ \E w \in Workers : PlSavePut(w) /\ PlFrame
    \/ PlBatchDone /\ PlFrame

SpecAdPool == InitPoolOnly /\ [][NextPool]_vars

\* The exports of run_batches, with the answers stored between them.
InitExportOnly == InitExport /\ OldIdle /\ FlIdle /\ RtIdle /\ GmIdle /\ EvIdle /\ PlIdle

NextExport ==
    \/ \E query_ok \in BOOLEAN, write \in {"done", "no_open", "partial"} :
          ExportDbToJson(query_ok, write) /\ ExFrame
    \/ \E id \in 1..MaxExRows : ExAnswerStored(id) /\ ExFrame

SpecExport == InitExportOnly /\ [][NextExport]_vars



(***************************************************************************)
(* C1                                                                      *)
(***************************************************************************)
\* C1 (as claimed): for every configured cache_size, after every
\* CacheManager.set from an empty cache the number of resident keys is at
\* most cache_size.
C1_SizeAtMostCapacity == GetCacheSize(cm_redis) <= cache_size

\* C1 (amended): for every configured cache_size >= 1, after every
\* CacheManager.set from an empty cache the number of resident keys is at
\* most cache_size.
C1_SizeAtMostPositiveCapacity ==
    cache_size >= 1 => GetCacheSize(cm_redis) <= cache_size

\* A set that had to evict (the cache was full) has returned True and the
\* cache is full again.
C1_Witness ==
    /\ cache_size = 2
    /\ cm_last.op = "set" /\ cm_last.result = "True"
    /\ cm_redis["k3"] # None
    /\ cm_redis["k1"] = None
    /\ GetCacheSize(cm_redis) = 2


(***************************************************************************)
(* C2 - C4, C7 - C10: LLMClient.run_batches                                *)
(***************************************************************************)
Tiers == <<"cache", "store", "client">>

\* C2: one resolution consults the tiers in the order cache, store, client:
\* a cache hit ends it with source 'cache' and nothing else consulted, a
\* store hit with source 'database' and no client call, and the store and
\* the client are reached only after the misses before them.
C2_TierOrder ==
    /\ consulted = SubSeq(Tiers, 1, Len(consulted))
    /\ source = "cache" =>
          /\ consulted = <<"cache">>
          /\ answer = GetCachedAnswer(redis_client, q)
    /\ source = "database" => consulted = <<"cache", "store">>
    /\ source = "gemini" => consulted = Tiers
    /\ pc \in {"db", "gemini"} => ~Truthy(GetCachedAnswer(redis_client, q))
    /\ pc = "gemini" => \E a \in GetAnswerFromDb(questions_table, q) : ~Truthy(a)

\* A resolution served by the cache has completed.
C2_Witness ==
    /\ result.source = "cache"
    /\ Truthy(result.answer)
    /\ consulted = <<"cache">>

\* C3: once a key has been resolved through the external client, no later
\* resolution of that key reaches the client again.
C3_NoSecondClientCall == pc = "gemini" => q \notin client_resolved

\* C4: when every credential failed, the resolution yields no answer with
\* source 'gemini' and writes neither the store nor the cache.
C4_ExhaustionWritesNothing ==
    exhausted =>
        /\ result.source # "gemini"
        /\ \A i \in DOMAIN questions_table :
              questions_table[i].question_text = q =>
                  questions_table[i].llm_answer # ErrorMessage
        /\ GetCachedAnswer(redis_client, q) # ErrorMessage

C9_StoreLookupByKey ==
    result.source = "database" =>
        \E i \in DOMAIN questions_table :
            /\ questions_table[i].question_text = result.question
            /\ questions_table[i].llm_answer = result.answer

\* C10: save_question_answer_to_db leaves a non-empty human_answer of an
\* existing row as it is.
C10_SavePreservesHumanAnswer ==
    [][\A i \in DOMAIN questions_table :
          Truthy(questions_table[i].human_answer) =>
              questions_table'[i].human_answer = questions_table[i].human_answer]_vars


(***************************************************************************)
(* C5: call_grok                                                           *)
(***************************************************************************)
\* C5: when every attempt fails, call_grok makes exactly len(API_KEYS)
\* attempts and then raises; it never loops without end: it raises after
\* len(API_KEYS) attempts, and while it loops a credential is left to try.
C5_GrokExhaustsAfterLenAttempts ==
    /\ grok_pc = "raised" => grok_attempts = Len(API_KEYS)
    /\ (grok_pc = "while" /\ GrokLoopGoesOn(tried_keys, API_KEYS)) =>
          \E i \in DOMAIN API_KEYS : API_KEYS[i] \notin tried_keys


(***************************************************************************)
(* C6: _call_llm of adsad                                                  *)
(***************************************************************************)
\* C6: an invocation of _call_llm ends in SUCCESS or in a reported
\* exhaustion after a bounded number of attempts: once every credential
\* has failed it issues no further attempt, and it never ends in an
\* unhandled RecursionError.
C6_CallLlmBounded ==
    \A w \in Workers :
        /\ ad_pc[w] = "call" => ad_depth[w] < Len(ad_api_keys)
        /\ ad_pc[w] # "raised"


(***************************************************************************)
(* Side checks that the statuses above lean on                             *)
(***************************************************************************)
\* get_answer_from_gemini gives up after exactly len(api_keys) failed
\* attempts (the part of C5 that is about Gemini), under Spec.
GeminiGivesUpAfterAllKeys ==
    /\ tried <= Len(api_keys)
    /\ exhausted => tried = Len(api_keys)

\* call_grok raises only after it took every configured credential for a
\* request of that call (the part of C18 that is about call_grok), under
\* SpecGrok.
GrokRaisesAfterEveryCredential ==
    grok_pc = "raised" => \A i \in DOMAIN API_KEYS : API_KEYS[i] \in tried_keys

\* adsad's _process_question, under SpecAdsad: a question the client
\* answered with v and _save_to_db committed is in the store and in the
\* cache with v, as long as no other pool thread holds the same question.
AdClientWriteThrough ==
    \A w \in Workers :
        (/\ ad_pc[w] = "returned"
         /\ ad_source[w] = "client"
         /\ ad_saved[w]
         /\ \A o \in Workers \ {w} : ad_question[o] # ad_question[w]) =>
            /\ ad_redis[ad_question[w]] = ad_answer[w]
            /\ \E i \in DOMAIN ad_table :
                  /\ ad_table[i].question_text = ad_question[w]
                  /\ ad_table[i].llm_answer = ad_answer[w]


(***************************************************************************)
(* C11 - C14: the eviction of CacheManager.set                             *)
(***************************************************************************)
\* C11: under policy FIFO, whenever set evicts, the victim is the resident
\* entry that was created first (capacity 2: set(A), set(B), set(C) evicts A).
C11_FifoEvictsOldestCreated ==
    [][(cache_policy = "FIFO" /\ cm_last'.op = "set" /\ cm_last'.evicted # NoVal) =>
          cm_last'.evicted = Head(cm_order)]_vars

\* C12: under policy LRU, whenever set evicts, the victim is the resident
\* key whose last get or set is the oldest.
C12_LruEvictsLeastRecentlyUsed ==
    [][(cache_policy = "LRU" /\ cm_last'.op = "set" /\ cm_last'.evicted # NoVal) =>
          cm_last'.evicted = Head(cm_access)]_vars

\* C13: a set that starts with size >= cache_size evicts until size <
\* cache_size before it inserts, so for a capacity of at least one, after a
\* set that returned True the size is at most cache_size, also when another
\* client has written to the same database.
C13_SetEvictsDownToCapacity ==
    (cache_size >= 1 /\ cm_last.op = "set" /\ cm_last.result = "True") =>
        GetCacheSize(cm_redis) <= cache_size

\* C14: a set that returns False leaves the resident keys and their values
\* as they were before the call.
C14_FailedSetChangesNothing ==
    [][(cm_last'.op = "set" /\ cm_last'.result = "False") => cm_redis' = cm_redis]_vars


(***************************************************************************)
(* C15, C16, C19: the thread pool of adsad                                 *)
(***************************************************************************)
\* C15: no exception raised while one question is resolved ends
\* _update_missing_llm_answers: the run is never stopped by it.
C15_FailureNeverStopsRun == ad_main # "crashed"

\* C16: when _process_question has returned and the cache holds an entry
\* for its question, the store holds a non-empty answer for that question,
\* whatever became of the store write.
C16_CachedImpliesStored ==
    \A w \in Workers :
        (ad_pc[w] = "returned" /\ ad_redis[ad_question[w]] # None) =>
            \E i \in DOMAIN ad_table :
                /\ ad_table[i].question_text = ad_question[w]
                /\ Truthy(ad_table[i].llm_answer)

\* C19: under every interleaving of the pool threads, key_index stays in
\* 0..N-1 and what _rotate_key returns is one of the configured credentials.
C19_RotateStaysValid ==
    /\ ad_key_index \in 0..(Len(ad_api_keys) - 1)
    /\ \A w \in Workers :
          ad_ret[w] # 0 => \E i \in DOMAIN ad_api_keys : ad_api_keys[i] = ad_ret[w]

\* With two credentials, every pool thread has made exactly one _rotate_key
\* in its _call_llm and all of them got the same credential: their calls
\* overlapped.
C19_Witness ==
    /\ Len(ad_api_keys) = 2
    /\ \A w \in Workers : ad_pc[w] = "call" /\ ad_depth[w] = 1
    /\ \A v, w \in Workers : ad_ret[v] = ad_ret[w]


(***************************************************************************)
(* C17, C18: the credentials of get_answer_from_gemini                     *)
(***************************************************************************)
\* C17: with N credentials the index stays in 0..N-1, the indices that N
\* consecutive _rotate_key calls make current are all different (so each
\* credential is current exactly once before any repeats), and rotation
\* never changes the credential list.
C17_RotationRoundRobin ==
    /\ [](/\ key_index \in 0..(Len(api_keys) - 1)
          /\ Len(rotated) <= Len(api_keys)
          /\ \A i, j \in DOMAIN rotated : rotated[i] = rotated[j] => i = j)
    /\ [][api_keys' = api_keys]_vars

\* As many rotations as there are credentials, two, have been made in a row
\* and every credential failed.
C17_Witness ==
    /\ Len(api_keys) = 2
    /\ Len(rotated) = 2
    /\ exhausted

\* C18: get_answer_from_gemini reports exhaustion only after a request was
\* sent with every configured credential in that call, for every
\* max_key_attempts.
C18_ExhaustionAfterEveryCredential ==
    exhausted => \A i \in DOMAIN api_keys : api_keys[i] \in used_keys


(***************************************************************************)
(* C20: a failed cache read in run_batches                                 *)
(***************************************************************************)
\* C20: when get_cached_answer raised, the resolution goes on with the
\* store lookup: it is not over before the store was consulted, and it ends
\* with an answer for the question.
C20_CacheFailureBypassed ==
    (cache_failed /\ pc = "for") =>
        /\ Len(consulted) >= 2
        /\ result.question = q


(***************************************************************************)
(* C21: a failed store lookup in run_batches                               *)
(***************************************************************************)
\* C21: a store lookup of run_batches that yields no answer, a connectivity
\* error included, is followed by the call of the external client in the
\* same resolution.
C21_StoreFailureIsMiss ==
    [][(pc = "db" /\ source' # "database") => pc' = "gemini"]_vars


(***************************************************************************)
(* C28: the progress of run_batches                                        *)
(***************************************************************************)
\* C28: once run_batches has counted a question and built its result,
\* whichever tier served it, every row of that question has a non-NULL
\* llm_answer, so that get_next_questions does not return it again.
C28_ProcessedIsAnswered ==
    (pc = "for" /\ result # NoResult) =>
        \A i \in DOMAIN questions_table :
            questions_table[i].question_text = result.question =>
                questions_table[i].llm_answer # None


(***************************************************************************)
(* C29: the two writes of adsad's _process_question                        *)
(***************************************************************************)
\* C29: whenever the cache holds the answer a pool thread has just obtained
\* from the client for its question, the store holds that answer for the
\* question too: no reader sees the cache entry before the store write.
C29_CacheNeverAheadOfStore ==
    \A w \in Workers :
        (/\ ad_pc[w] \in {"set", "save"}
         /\ ad_redis[ad_question[w]] = ad_answer[w]) =>
            \E i \in DOMAIN ad_table :
                /\ ad_table[i].question_text = ad_question[w]
                /\ ad_table[i].llm_answer = ad_answer[w]


(***************************************************************************)
(* C23: the shape of a successful response in adsad's _call_llm            *)
(***************************************************************************)
\* C23: _call_llm goes into its except clause (rotation and a new attempt)
\* only for a response that is an error; a 200 response with a message
\* content, plain string or list of segments, is never a failed attempt.
C23_BothShapesAccepted ==
    \A w \in Workers : ad_pc[w] = "rotate" => ad_resp[w] = "error"


(***************************************************************************)
(* C30: overlapping _rotate_key calls                                      *)
(***************************************************************************)
\* C30: whenever no _rotate_key is between its read and its write of
\* key_index, key_index is (start + k) mod N, k the number of _rotate_key
\* calls completed so far, in every interleaving of the pool threads.
C30_EveryRotationCounts ==
    (\A w \in Workers : ad_pc[w] # "rotated") => ad_key_index = ad_expected


(***************************************************************************)
(* C27: the end of _update_missing_llm_answers                             *)
(***************************************************************************)
\* C27: for every initial content of the cache, when no command and no
\* request fails, _update_missing_llm_answers reaches the break: no row
\* with llm_answer '' is left.
C27_MissingLoopTerminates == <>(ad_main = "end")


(***************************************************************************)
(* C25: the writes of one resolution                                       *)
(***************************************************************************)
\* C25: a resolution of run_batches calls the cache write at most once and
\* the store write at most once; one that ends with a result has made no
\* write call when the cache served it, exactly one cache write and no
\* store write when the store served it, and exactly one store write and
\* one cache write when the client served it.
C25_WritesPerPath ==
    /\ \A i, j \in DOMAIN writes : writes[i] = writes[j] => i = j
    /\ (pc = "for" /\ result # NoResult) =>
          /\ result.source = "cache" => writes = <<>>
          /\ result.source = "database" => writes = <<"cache">>
          /\ result.source = "gemini" => writes = <<"store", "cache">>

\* Within one run a question was served by the client, a later one by the
\* store: the result at hand comes from the store, after a client result.
C25_Witness ==
    /\ pc = "for"
    /\ result.source = "database"
    /\ writes = <<"cache">>
    /\ client_resolved # {}

\* adsad's _process_question, under SpecAdsad: no write call on a cache
\* hit, one cache write and one store write on the client path.
AdWritesPerPath ==
    \A w \in Workers :
        /\ \A i, j \in DOMAIN ad_writes[w] : ad_writes[w][i] = ad_writes[w][j] => i = j
        /\ ad_pc[w] = "returned" =>
              /\ ad_source[w] = "cache" => ad_writes[w] = <<>>
              /\ ad_source[w] = "client" => ad_writes[w] = <<"cache", "store">>

\* simulate_traffic, under SpecTraffic: no write call on a cache hit, one
\* cache write when the store served the query, one store write (the
\* endpoint's UPDATE) and one cache write when the API served it, and no
\* write when nothing served it.
TgWritesPerPath ==
    /\ \A i, j \in DOMAIN tg_writes : tg_writes[i] = tg_writes[j] => i = j
    /\ tg_i > 0 =>
          /\ tg_data = "cache" => tg_writes = <<>>
          /\ tg_data = "database" => tg_writes = <<"cache">>
          /\ tg_data = "api" => tg_writes = <<"store", "cache">>
          /\ tg_data = "none" => tg_writes = <<>>


(***************************************************************************)
(* C22: fatal conditions at start-up                                       *)
(***************************************************************************)
\* C22: with no credential configured __init__ raises before it has created
\* or connected any client; with the store unreachable it raises once its
\* connection attempts, ConnectAttempts at most, have all failed; after
\* either the batch work never begins, and it begins only with a credential
\* and a connection.
C22_StartUpFailsFast ==
    /\ [](/\ (st_pc = "raised" /\ st_keys = <<>>) => st_touched = {}
          /\ (st_pc = "raised" /\ st_keys # <<>>) =>
                (st_attempt = ConnectTries(st_prog) /\ ~st_conn)
          /\ st_attempt <= ConnectAttempts
          /\ st_pc = "running" => (st_keys # <<>> /\ st_conn))
    /\ [][st_pc = "raised" => st_pc' = "raised"]_vars

\* LLM_Client's __init__ found one credential among unset and blank ones
\* and has raised after ConnectAttempts failed connections.
C22_Witness ==
    /\ st_prog = "LLM_Client"
    /\ st_pc = "raised"
    /\ Len(st_keys) = 1
    /\ st_env[1] = None /\ st_env[2] = <<" ">>
    /\ st_attempt = ConnectAttempts
    /\ st_touched = {"cache", "store"}


(***************************************************************************)
(* C24: upsert_questions                                                   *)
(***************************************************************************)
\* C24: after an upsert_questions(data) that did not raise, for every item:
\* when its id was in the table, the row has the item's llm_answer, four
\* scores and evaluated_at, and keeps its question_text and human_answer
\* unless that was NULL or '', in which case it has the item's; when the id
\* was new, the row is the item's entry.  The rows of other ids are as
\* before.
C24_UpsertEffect ==
    (up_data # <<>> /\ ~up_error) =>
        /\ \A n \in DOMAIN up_data :
              LET id == ParseInt(up_data[n].key)
                  ex == up_data[n].entry
              IN  /\ id \in DOMAIN up_table
                  /\ IF id \in DOMAIN up_before
                     THEN LET old == up_before[id]
                              row == up_table[id]
                          IN  /\ row.llm_answer = ex.llm_answer
                              /\ row.similarity_score = ex.similarity_score
                              /\ row.quality_score = ex.quality_score
                              /\ row.completeness_score = ex.completeness_score
                              /\ row.overall_score = ex.overall_score
                              /\ row.evaluated_at = ex.evaluated_at
                              /\ row.question_text =
                                    IF old.question_text \in {None, <<>>}
                                    THEN ex.question_text ELSE old.question_text
                              /\ row.human_answer =
                                    IF old.human_answer \in {None, <<>>}
                                    THEN ex.human_answer ELSE old.human_answer
                     ELSE up_table[id] = ex
        /\ \A id \in DOMAIN up_before :
              (\A n \in DOMAIN up_data : ParseInt(up_data[n].key) # id) =>
                  up_table[id] = up_before[id]

\* One call upserted id 2, whose row had an empty question_text and a
\* human_answer, with an evaluated entry, and inserted id 1: the row of 2
\* has the entry's question_text, answer and scores and its own
\* human_answer.
C24_Witness ==
    /\ Len(up_data) = 2
    /\ DOMAIN up_before = {2}
    /\ up_before[2].question_text = <<>>
    /\ up_before[2].human_answer = HumanAnswer
    /\ up_before[2].llm_answer = OldAnswer
    /\ up_data[1].key = <<"0", "2">>
    /\ up_table[2].question_text = Q2
    /\ up_table[2].human_answer = HumanAnswer
    /\ up_table[2].llm_answer = <<"n">>
    /\ up_table[2].overall_score = NewScores[4]
    /\ DOMAIN up_table = {1, 2}


(***************************************************************************)
(* C26: the victim of the LFU policy                                       *)
(***************************************************************************)
\* C26: under policy LFU, whenever set evicts, no resident key has a lower
\* access count than the victim, and none with the same count was last
\* accessed before it.
C26_LfuEvictsLeastFrequentlyUsed ==
    [][(cache_policy = "LFU" /\ cm_last'.op = "set" /\ cm_last'.evicted # NoVal) =>
          \A x \in Resident(cm_redis) :
              \/ cm_count[cm_last'.evicted] < cm_count[x]
              \/ /\ cm_count[cm_last'.evicted] = cm_count[x]
                 /\ IndexOf(cm_access, cm_last'.evicted) <= IndexOf(cm_access, x)]_vars


(***************************************************************************)
(* C31: reprocess_fails                                                    *)
(***************************************************************************)
\* C31: a message taken from respuestas_fallidas is emitted again, with
\* retries one higher and nothing else changed, exactly when its retries
\* (0 when it has none) is below 3, and is dropped otherwise; a message that
\* starts without retries is emitted at most 3 times, and no emitted
\* message has retries above 3.
C31_RetriesBounded ==
    /\ fl_last.value # NoMessage =>
          /\ (fl_last.out # NoMessage) <=> (DictGet(fl_last.value, "retries", 0) < 3)
          /\ fl_last.out # NoMessage =>
                /\ fl_last.out.retries = DictGet(fl_last.value, "retries", 0) + 1
                /\ DOMAIN fl_last.out = DOMAIN fl_last.value \cup {"retries"}
                /\ \A x \in DOMAIN fl_last.value \ {"retries"} :
                      fl_last.out[x] = fl_last.value[x]
    /\ \A i \in 1..MaxMsgs : fl_emits[i] <= 3
    /\ \A i \in DOMAIN fl_questions : fl_questions[i].retries <= 3

\* A message that came without retries has been emitted three times and is
\* now dropped.
C31_Witness ==
    /\ fl_last.value # NoMessage
    /\ fl_last.out = NoMessage
    /\ fl_emits[fl_last.value.id] = 3


(***************************************************************************)
(* C32: a value through set and get                                        *)
(***************************************************************************)
\* C32: a get of a key that is resident since a set that returned True
\* returns a value equal to the value that set was given, whatever its kind
\* (str, int, dict, list).
C32_RoundTrip ==
    (cm_last.op = "get" /\ cm_value[cm_last.key].kind # "none") =>
        PyEq(cm_last.result, cm_value[cm_last.key])


(***************************************************************************)
(* C35: evaluate_question when call_grok gives up                          *)
(***************************************************************************)
\* C35: a request whose call_grok for the answer raised, every credential
\* having failed, leaves the table as it was when the request came in, ends
\* with HTTP status 500 and has closed its store connection.
C35_GrokFailureCommitsNothing ==
    ev_req.exc = "RuntimeError" =>
        /\ ev_table = ev_before
        /\ ev_status = 500
        /\ ev_conn = "closed"

\* call_grok gave up for a question that an earlier request had evaluated.
C35_Witness ==
    /\ ev_req.exc = "RuntimeError"
    /\ ev_table[ev_req.id].llm_answer = GrokAnswer


(***************************************************************************)
(* C36: the connections of adsad's store pool                              *)
(***************************************************************************)
\* The threads that are between _get_conn and the return of _save_to_db or
\* of the SELECT block of _update_missing_llm_answers.
PlInside ==
    {w \in Workers : pl_pc[w] # "idle"}
    \cup (IF pl_main \in {"select", "questions", "no_questions", "select_raised"}
          THEN {0} ELSE {})

\* C36: a thread that has left _save_to_db or the SELECT block has returned
\* the connection it took exactly once, whether the statements went
\* through, raised, or the rollback raised too; the connections checked out
\* are never more than the threads inside those operations, and none is
\* checked out when no thread is inside.
C36_ConnectionsReturnedOnce ==
    /\ \A t \in PlThreads :
          /\ t \in PlInside => pl_puts[t] = 0 /\ pl_conn[t] \in pl_used
          /\ (t \notin PlInside /\ pl_conn[t] # 0) => pl_puts[t] = 1
    /\ Cardinality(pl_used) <= Cardinality(PlInside)
    /\ PlInside = {} => pl_used = {}

\* One pool thread has returned its connection after a rollback that
\* raised while the other still holds one.
C36_Witness ==
    /\ pl_pc[1] = "idle" /\ pl_puts[1] = 1 /\ pl_path[1] = "failed_rollback"
    /\ pl_pc[2] = "except"
    /\ Cardinality(pl_used) = 1


(***************************************************************************)
(* C33, C34, C37: the attempts of one get_answer_from_gemini call          *)
(***************************************************************************)
\* C33: an attempt of get_answer_from_gemini whose response is a request
\* exception or any status other than 200 advances _key_index by one modulo
\* the number of credentials, counts as one attempt and leaves the call in
\* its loop; the call gives up only when the attempts are used up.
C33_EveryFailureRotatesOnce ==
    /\ [][(pc = "gemini" /\ tried < keys_to_try /\ last_status' # 200) =>
             /\ key_index' = (key_index + 1) % Len(api_keys)
             /\ tried' = tried + 1
             /\ pc' = "gemini"]_vars
    /\ [](exhausted => tried = keys_to_try)

\* A call with two credentials has failed on both
\* and has given up after a request exception.
C33_Witness ==
    /\ Len(api_keys) = 2
    /\ exhausted
    /\ tried = 2
    /\ last_status = 0

\* C34: a call that returned an answer leaves _key_index at the credential
\* of the request that succeeded, and a call with the default
\* max_key_attempts that failed on every credential leaves _key_index where
\* it was when the call started.
C34_IndexAfterCall ==
    /\ (pc = "save" /\ source = "gemini" /\ ~exhausted) => key_index = last_key
    /\ (pc = "save" /\ exhausted /\ keys_to_try = Len(api_keys)) => key_index = start_index

\* A call that started at the second of two credentials has failed on both.
C34_Witness ==
    /\ Len(api_keys) = 2
    /\ start_index = 1
    /\ pc = "save" /\ exhausted /\ keys_to_try = 2

\* C37: in one get_answer_from_gemini call, an attempt that uses another
\* credential than the attempt before it is issued after a backoff sleep.
C37_BackoffBetweenCredentials ==
    [][(pc = "gemini" /\ tried < keys_to_try /\ last_key # -1 /\ last_key' # last_key)
          => slept]_vars


GrokBackoffBetweenCredentials ==
    [][(grok_pc = "post" /\ grok_attempts >= 1 /\ grok_attempts' = grok_attempts + 1)
          => slept]_vars

====
